---- MODULE Spec2Model ----
(***************************************************************************)
(* Model of the outbound call pipeline of gemini-nanobanana-mcp            *)
(* (callGeminiGenerate and its helpers).                                   *)
(*                                                                         *)
(* Conventions.  A JavaScript string is a sequence of characters; an       *)
(* optional value (a field that may be undefined) is a sequence of length  *)
(* 0 (undefined) or 1 (the value).  Bytes are 0..255, base64 characters    *)
(* are their alphabet index 0..63 and Pad for '='.                         *)
(***************************************************************************)
EXTENDS Integers, Sequences, FiniteSets, TLC

\* ------------------------------------------------------------------------
\* Bounds of the model
\* ------------------------------------------------------------------------
MaxImages == 2

\* ------------------------------------------------------------------------
\* Program constants
\* ------------------------------------------------------------------------
\* variant: one retry too many
MAX_RETRIES_OneMore == 3 + 1

MAX_RETRIES == 3
BASE_DELAY == 1000
REQUEST_TIMEOUT == 60000

\* ------------------------------------------------------------------------
\* Optional values and truthiness
\* ------------------------------------------------------------------------
None == <<>>
Some(v) == <<v>>

\* JavaScript truthiness of an optional string held as a sequence of
\* characters: undefined and '' are falsy.
Truthy(opt) == opt # None /\ opt[1] # <<>>

\* The same for an optional string held as a TLA+ string (paths, MIME types).
TruthyStr(opt) == opt # None /\ opt[1] # ""

\* a ?? b
Coalesce(opt, dflt) == IF opt = None THEN dflt ELSE opt[1]

\* ------------------------------------------------------------------------
\* Strings
\* ------------------------------------------------------------------------
Whitespace == {" ", "\t", "\n"}

RECURSIVE TrimStart(_)
TrimStart(s) ==
  IF s # <<>> /\ Head(s) \in Whitespace THEN TrimStart(Tail(s)) ELSE s

RECURSIVE TrimEnd(_)
TrimEnd(s) ==
  IF s # <<>> /\ s[Len(s)] \in Whitespace
    THEN TrimEnd(SubSeq(s, 1, Len(s) - 1))
    ELSE s

\* String.prototype.trim
Trim(s) == TrimEnd(TrimStart(s))

\* ------------------------------------------------------------------------
\* Base64 (Buffer.toString('base64'))
\* ------------------------------------------------------------------------
Pad == 64

RECURSIVE Base64Encode(_)
Base64Encode(bytes) ==
  IF Len(bytes) = 0 THEN <<>>
  ELSE IF Len(bytes) = 1 THEN
    << bytes[1] \div 4, (bytes[1] % 4) * 16, Pad, Pad >>
  ELSE IF Len(bytes) = 2 THEN
    << bytes[1] \div 4,
       (bytes[1] % 4) * 16 + (bytes[2] \div 16),
       (bytes[2] % 16) * 4,
       Pad >>
  ELSE
    << bytes[1] \div 4,
       (bytes[1] % 4) * 16 + (bytes[2] \div 16),
       (bytes[2] % 16) * 4 + (bytes[3] \div 64),
       bytes[3] % 64 >>
    \o Base64Encode(SubSeq(bytes, 4, Len(bytes)))

\* ------------------------------------------------------------------------
\* Environment: credential, file system, caller inputs
\* ------------------------------------------------------------------------
\* Values of process.env.GEMINI_API_KEY
EnvKeys ==
  { None, Some(<<>>), Some(<<" ">>), Some(<<"\t", " ">>), Some(<<" ", "k">>) }

\* Files present when the call starts: path -> bytes.
InitialFiles ==
  [p \in {"a.png", "b.jpg", "empty.png"} |->
     CASE p = "a.png"     -> <<137, 80, 78>>
       [] p = "b.jpg"     -> <<255, 216>>
       [] p = "empty.png" -> <<>>]

Prompts == {"draw a cat"}

\* InlineImageInput values a caller can pass.
InlineImageInputs ==
  { [dataBase64 |-> None, path |-> None, mimeType |-> None],
    [dataBase64 |-> Some(<<>>), path |-> Some("a.png"), mimeType |-> Some("image/jpeg")],
    [dataBase64 |-> Some(<<16, 17, 18, 19>>), path |-> None, mimeType |-> None],
    [dataBase64 |-> Some(<<20, 21, Pad, Pad>>), path |-> Some("b.jpg"), mimeType |-> Some("image/webp")],
    [dataBase64 |-> None, path |-> Some("a.png"), mimeType |-> None],
    [dataBase64 |-> None, path |-> Some("empty.png"), mimeType |-> Some("image/png")],
    [dataBase64 |-> None, path |-> Some("gone.png"), mimeType |-> Some("image/gif")] }

RECURSIVE SeqsUpTo(_, _)
SeqsUpTo(S, n) ==
  IF n = 0 THEN { <<>> }
  ELSE LET shorter == SeqsUpTo(S, n - 1)
       IN  shorter \cup { Append(q, x) : q \in shorter, x \in S }

\* GenerateRequest values: a prompt and an optional list of images.
GenerateRequests ==
  { [prompt |-> p, images |-> imgs] :
      p \in Prompts,
      imgs \in {None} \cup { Some(q) : q \in SeqsUpTo(InlineImageInputs, MaxImages) } }

\* ------------------------------------------------------------------------
\* Provider behaviour
\* ------------------------------------------------------------------------
Statuses == {200, 400, 429, 503}

ErrorTexts == {"quota exceeded"}

\* Math.random() * 1000, in whole milliseconds
Jitters == {0, 999}

TextPart(t) == [inlineData |-> None, text |-> Some(t)]
ImagePart(d, m) == [inlineData |-> Some([data |-> d, mimeType |-> m]), text |-> None]

Candidate(ps) == [content |-> Some([parts |-> Some(ps)])]

\* Bodies of success responses (GeminiGenerateResponse).
JsonBodies ==
  { [candidates |-> None],
    [candidates |-> Some(<< Candidate(<< TextPart("refused"),
                                         ImagePart(Some(<<>>), Some("image/png")) >>),
                            Candidate(<< ImagePart(Some(<<1, 2, 3, 4>>), None) >>) >>)],
    [candidates |-> Some(<< Candidate(<< TextPart("here"),
                                         ImagePart(Some(<<5, 6, 7, 8>>), Some("image/jpeg")) >>) >>)],
    [candidates |-> Some(<< Candidate(<< ImagePart(Some(<<9, 10, Pad, Pad>>), None),
                                         ImagePart(Some(<<11, 12, 13, Pad>>), Some("image/webp")) >>),
                            Candidate(<< ImagePart(Some(<<1, 2, 3, 4>>), None) >>) >>)],
    [candidates |-> Some(<< Candidate(<< ImagePart(Some(<<14, 15, 16, 17>>), Some("image/bmp")) >>) >>)],
    [candidates |-> Some(<< Candidate(<< ImagePart(Some(<<18, 19, 20, Pad>>), Some("IMAGE/JPEG")) >>) >>)] }

\* ------------------------------------------------------------------------
\* Errors
\* ------------------------------------------------------------------------
\* An Error value: its name, the fixed text of its message and the values
\* interpolated into the message (status code, response body or path,
\* timeout in seconds).
Err(n, m, st, b) == [name |-> n, message |-> m, status |-> st, body |-> b, seconds |-> 0]

NullError == Err("null", "", 0, "")
CredentialError ==
  Err("Error", "GEMINI_API_KEY environment variable is required but not set or empty", 0, "")
InputError == Err("Error", "InlineImageInput requires either dataBase64 or path", 0, "")
ReadFileError(p) == Err("Error", "ENOENT", 0, p)
NetworkError == Err("TypeError", "fetch failed", 0, "")
AbortError == Err("AbortError", "This operation was aborted", 0, "")
BodyError == Err("SyntaxError", "Unexpected end of JSON input", 0, "")
NoImageError == Err("Error", "No image data returned by Gemini API", 0, "")
ApiError(st, text) == Err("Error", "Gemini API error", st, text)
TimeoutError ==
  [Err("Error", "Request timed out after seconds", 0, "") EXCEPT
     !.seconds = REQUEST_TIMEOUT \div 1000]
MaxRetriesError == Err("Error", "Max retries exceeded", 0, "")

\* ------------------------------------------------------------------------
\* Pure helpers of the pipeline
\* ------------------------------------------------------------------------
\* GEMINI_API_KEY = process.env.GEMINI_API_KEY ?? ''
ApiKeyOf(env) == Coalesce(env, <<>>)

\* variant: the whitespace-only test is forgotten
CredentialMissing_NoTrim(key) == key = <<>>

\* !GEMINI_API_KEY || GEMINI_API_KEY.trim() === ''
CredentialMissing(key) == key = <<>> \/ Trim(key) = <<>>

\* variant: the path is read whenever one is given
NeedsFileRead_PathFirst(input) == TruthyStr(input.path)

\* !dataBase64 && input.path
NeedsFileRead(input) == ~Truthy(input.dataBase64) /\ TruthyStr(input.path)

\* variant: the missing-data test is forgotten
MissingData_Never(data) == FALSE

\* !dataBase64 (after the optional file read)
MissingData(data) == ~Truthy(data)

\* variant: the text part is appended instead of prepended
BuildParts_TextLast(textPart, imgParts) == imgParts \o <<textPart>>

\* [textPart, ...imageParts]
BuildParts(textPart, imgParts) == <<textPart>> \o imgParts

\* variant: the loop stops one attempt early
LoopContinues_Strict(att) == att < MAX_RETRIES

\* attempt <= MAX_RETRIES
LoopContinues(att) == att <= MAX_RETRIES

\* variant: the last-attempt test fires one attempt early
IsLastAttempt_Early(att) == att >= MAX_RETRIES - 1

\* attempt === MAX_RETRIES
IsLastAttempt(att) == att = MAX_RETRIES

\* variant: the catch block throws the generic error of the function
Rethrown_Generic(err) == MaxRetriesError

\* throw err, in the catch block
Rethrown(err) == err

\* variant: the abort is looked for under the wrong name
IsAbort_WrongName(err) == err.name = "TimeoutError"

\* err instanceof Error && err.name === 'AbortError'
IsAbort(err) == err.name = "AbortError"

shouldRetry(status) == status = 429 \/ (status >= 500 /\ status < 600)

RECURSIVE Pow2(_)
Pow2(n) == IF n = 0 THEN 1 ELSE 2 * Pow2(n - 1)

\* variant: the delay grows linearly with the attempt
calculateDelay_Linear(att, jitter) == BASE_DELAY * (att + 1) + jitter

\* BASE_DELAY * Math.pow(2, attempt) + Math.random() * 1000
calculateDelay(att, jitter) == BASE_DELAY * Pow2(att) + jitter

\* fetchResponse.ok
ResponseOk(status) == status >= 200 /\ status <= 299

\* variant: the last candidate is scanned instead of the first
FirstParts_LastCandidate(json) ==
  IF json.candidates = None \/ json.candidates[1] = <<>> THEN <<>>
  ELSE LET cand == json.candidates[1][Len(json.candidates[1])]
       IN  IF cand.content = None THEN <<>>
           ELSE Coalesce(cand.content[1].parts, <<>>)

\* json.candidates?.[0]?.content?.parts ?? []
FirstParts(json) ==
  IF json.candidates = None \/ json.candidates[1] = <<>> THEN <<>>
  ELSE LET cand == json.candidates[1][1]
       IN  IF cand.content = None THEN <<>>
           ELSE Coalesce(cand.content[1].parts, <<>>)

RECURSIVE ExtractImages(_)
ExtractImages(ps) ==
  IF ps = <<>> THEN <<>>
  ELSE LET part == Head(ps)
           rest == ExtractImages(Tail(ps))
       IN  IF part.inlineData # None /\ Truthy(part.inlineData[1].data)
             THEN << [imageBase64 |-> part.inlineData[1].data[1],
                      mimeType |-> Coalesce(part.inlineData[1].mimeType, "image/png")] >>
                  \o rest
             ELSE rest

\* ------------------------------------------------------------------------
\* Strings of the save step.  A path is a sequence of characters; a run of
\* characters that no operation of the program looks into (a word without
\* '/', '.', ':', '~', '_', 'T') may be written as one element.
\* ------------------------------------------------------------------------
StartsWith(s, pre) == Len(pre) <= Len(s) /\ SubSeq(s, 1, Len(pre)) = pre

EndsWith(s, suf) ==
  Len(suf) <= Len(s) /\ SubSeq(s, Len(s) - Len(suf) + 1, Len(s)) = suf

\* String.prototype.includes
Includes(s, sub) ==
  \E i \in 1..(Len(s) - Len(sub) + 1) : SubSeq(s, i, i + Len(sub) - 1) = sub

\* String.prototype.split(sep) for a one-character separator
RECURSIVE SplitBy(_, _)
SplitBy(s, sep) ==
  IF \A i \in 1..Len(s) : s[i] # sep THEN << s >>
  ELSE LET k == CHOOSE i \in 1..Len(s) :
                  s[i] = sep /\ \A j \in 1..(i - 1) : s[j] # sep
       IN  << SubSeq(s, 1, k - 1) >> \o SplitBy(SubSeq(s, k + 1, Len(s)), sep)

\* Array.prototype.join(sep)
RECURSIVE JoinWith(_, _)
JoinWith(segs, sep) ==
  IF segs = <<>> THEN <<>>
  ELSE IF Len(segs) = 1 THEN segs[1]
  ELSE segs[1] \o << sep >> \o JoinWith(Tail(segs), sep)

\* String.prototype.replace(/[:.]/g, '-')
ReplaceColonsAndDots(s) ==
  [i \in 1..Len(s) |-> IF s[i] \in {":", "."} THEN "-" ELSE s[i]]

\* index of the last '.', 0 when there is none
LastDot(s) ==
  IF \A i \in 1..Len(s) : s[i] # "." THEN 0
  ELSE CHOOSE i \in 1..Len(s) : s[i] = "." /\ \A j \in (i + 1)..Len(s) : s[j] # "."

\* ------------------------------------------------------------------------
\* node:path (posix)
\* ------------------------------------------------------------------------
\* process.cwd()
Cwd == << "/", "w" >>

\* the segments of a path with '' and '.' dropped and '..' applied
RECURSIVE NormalizeSegments(_, _)
NormalizeSegments(segs, acc) ==
  IF segs = <<>> THEN acc
  ELSE LET sg == Head(segs)
       IN  IF sg = <<>> \/ sg = << "." >>
             THEN NormalizeSegments(Tail(segs), acc)
           ELSE IF sg = << ".", "." >>
             THEN NormalizeSegments(Tail(segs),
                                    IF acc = <<>> THEN acc
                                    ELSE SubSeq(acc, 1, Len(acc) - 1))
           ELSE NormalizeSegments(Tail(segs), Append(acc, sg))

\* path.resolve(p): the absolute, normalized path of p
resolve(p) ==
  LET abs == IF p # <<>> /\ p[1] = "/" THEN p ELSE Cwd \o << "/" >> \o p
  IN  << "/" >> \o JoinWith(NormalizeSegments(SplitBy(abs, "/"), <<>>), "/")

\* the last non-empty segment of a path
LastSegment(p) ==
  LET segs == SelectSeq(SplitBy(p, "/"), LAMBDA sg : sg # <<>>)
  IN  IF segs = <<>> THEN <<>> ELSE segs[Len(segs)]

\* path.extname(p)
extname(p) ==
  LET base == LastSegment(p)
      d == LastDot(base)
  IN  IF d = 0 \/ d = 1 \/ base = << ".", "." >> THEN <<>>
      ELSE SubSeq(base, d, Len(base))

\* path.dirname(p) of an absolute, normalized path
dirname(p) ==
  LET segs == SelectSeq(SplitBy(p, "/"), LAMBDA sg : sg # <<>>)
  IN  IF Len(segs) <= 1 THEN << "/" >>
      ELSE << "/" >> \o JoinWith(SubSeq(segs, 1, Len(segs) - 1), "/")

\* path.basename(p, ext)
basename(p, ext) ==
  LET base == LastSegment(p)
  IN  IF ext # <<>> /\ Len(ext) <= Len(p) /\ p # ext
         /\ EndsWith(base, ext) /\ Len(base) > Len(ext)
        THEN SubSeq(base, 1, Len(base) - Len(ext))
        ELSE base

\* path.join(dir, file) for a normalized dir and a file name without '/'
join(dir, file) ==
  IF dir = << "/" >> THEN dir \o file ELSE dir \o << "/" >> \o file

\* ------------------------------------------------------------------------
\* Configuration and inputs of the save step
\* ------------------------------------------------------------------------
\* process.env.HOME
Home == << "/", "h" >>

\* DEFAULT_SAVE_DIR = process.env.DEFAULT_SAVE_DIR ?? '~/Downloads/gemini-images'
DEFAULT_SAVE_DIR == << "~", "/", "Downloads", "/", "gemini-images" >>

\* new Date().toISOString() at the moments a file name is generated
Timestamps ==
  { << "2025-09-04", "T", "16", ":", "30", ":", "45", ".", "123", "Z" >> }

\* the tools whose handlers save an image, by the name they pass to
\* generateDefaultFileName
Tools == { << "generate" >>, << "edit" >> }

\* saveToFilePath arguments a caller can pass
SaveHints ==
  { None,
    Some(<< ".", "/", "o" >>),
    Some(<< "o", ".", "png" >>),
    Some(<< "d", "/", "o", ".", "png" >>),
    Some(<< "d", "/" >>),
    Some(<< "/", "w", "-x", "/", "o", ".", "png" >>),
    Some(<< "/", "e", "/", "o", ".", "png" >>),
    Some(<< ".", ".", "/", "o", ".", "png" >>),
    Some(<< "~", "/", "o", ".", "png" >>) }

\* files and directories present before the first tool call
InitialDisk ==
  [q \in { << "/", "w", "/", "o", ".", "png" >> } |-> << 1, 2, 3 >>]

InitialDirs == { << "/" >>, << "/", "w" >>, << "/", "h" >> }

\* ------------------------------------------------------------------------
\* Pure helpers of the save step
\* ------------------------------------------------------------------------
\* the value of one base64 character ('=' ends the data)
RECURSIVE Base64Data(_)
Base64Data(b64) ==
  IF b64 = <<>> \/ Head(b64) = Pad THEN <<>>
  ELSE << Head(b64) >> \o Base64Data(Tail(b64))

RECURSIVE DecodeGroups(_)
DecodeGroups(d) ==
  IF Len(d) <= 1 THEN <<>>
  ELSE IF Len(d) = 2 THEN << d[1] * 4 + (d[2] \div 16) >>
  ELSE IF Len(d) = 3 THEN
    << d[1] * 4 + (d[2] \div 16), (d[2] % 16) * 16 + (d[3] \div 4) >>
  ELSE
    << d[1] * 4 + (d[2] \div 16),
       (d[2] % 16) * 16 + (d[3] \div 4),
       (d[3] % 4) * 64 + d[4] >>
    \o DecodeGroups(SubSeq(d, 5, Len(d)))

\* variant: the padding is decoded as data
Base64Decode_KeepPad(b64) == DecodeGroups(b64)

\* Buffer.from(base64, 'base64')
Base64Decode(b64) == DecodeGroups(Base64Data(b64))

\* mimeType.toLowerCase(), on the MIME types of the model
ToLowerCase(m) == IF m = "IMAGE/JPEG" THEN "image/jpeg" ELSE m

\* mimeToExt[mimeType.toLowerCase()] || '.png'
detectedExt(mimeType) ==
  LET m == ToLowerCase(mimeType)
  IN  CASE m = "image/png"  -> << ".", "png" >>
        [] m = "image/jpeg" -> << ".", "jpg" >>
        [] m = "image/jpg"  -> << ".", "jpg" >>
        [] m = "image/webp" -> << ".", "webp" >>
        [] m = "image/gif"  -> << ".", "gif" >>
        [] OTHER            -> << ".", "png" >>

\* variant: the MIME-derived extension wins
SaveExtension_MimeFirst(targetPath, mimeType) == detectedExt(mimeType)

\* extension = providedExt || detectedExt
SaveExtension(targetPath, mimeType) ==
  IF extname(targetPath) # <<>> THEN extname(targetPath) ELSE detectedExt(mimeType)

\* basePath = providedExt ? targetPath : `${targetPath}${extension}`
SaveBasePath(targetPath, mimeType) ==
  IF extname(targetPath) # <<>> THEN targetPath
  ELSE targetPath \o SaveExtension(targetPath, mimeType)

\* variant: the suffix does not follow the counter
SuffixedPath_First(dir, name, counter, extension) ==
  join(dir, name \o << "_", "1" >> \o extension)

\* join(dir, `${name}_${counter}${extension}`)
SuffixedPath(dir, name, counter, extension) ==
  join(dir, name \o << "_", ToString(counter) >> \o extension)

\* DEFAULT_SAVE_DIR.replace(/^~/, process.env.HOME || ...)
ExpandTilde(dir, home) ==
  IF dir # <<>> /\ dir[1] = "~" THEN home \o Tail(dir) ELSE dir

generateDefaultFileName(tool, mimeType, iso) ==
  LET timestamp == SplitBy(ReplaceColonsAndDots(iso), "T")
      date == timestamp[1]
      time == SplitBy(timestamp[2], ".")[1]
      extension == IF mimeType = "image/jpeg" THEN << "jpg" >> ELSE << "png" >>
      expandedDir == ExpandTilde(DEFAULT_SAVE_DIR, Home)
  IN  expandedDir \o << "/" >> \o tool \o << "-" >> \o date \o << "-" >> \o time
        \o << "." >> \o extension

validateFilePath(path) ==
  LET normalizedPath == resolve(path)
      basePath == resolve(<< "." >>)
  IN  /\ StartsWith(normalizedPath, basePath)
      /\ ~Includes(path, << ".", "." >>)
      /\ ~Includes(path, << "~" >>)

\* variant: a missing path always gets a generated name
FinalSavePath_AlwaysAuto(saveToFilePath, auto, generated) ==
  IF Truthy(saveToFilePath) THEN saveToFilePath ELSE Some(generated)

\* saveToFilePath || (AUTO_SAVE ? generateDefaultFileName(..) : undefined)
FinalSavePath(saveToFilePath, auto, generated) ==
  IF Truthy(saveToFilePath) THEN saveToFilePath
  ELSE IF auto THEN Some(generated) ELSE None

\* the directories mkdir(dir, {recursive: true}) makes sure exist
RECURSIVE AncestorsOf(_)
AncestorsOf(dir) ==
  IF dir = << "/" >> THEN { dir } ELSE { dir } \cup AncestorsOf(dirname(dir))

\* ------------------------------------------------------------------------
\* State
\* ------------------------------------------------------------------------
VARIABLES
  envKey,       \* process.env.GEMINI_API_KEY
  files,        \* file system: path -> bytes of the files that exist
  request,      \* the GenerateRequest of the call
  pc,           \* position of the call
  idx,          \* toInlineDataParts: index of the input being resolved
  imageParts,   \* toInlineDataParts: parts built so far
  requestBody,  \* the request body built once before the loop
  attempt,      \* loop counter
  timerArmed,   \* the timeout timer of the current attempt is pending
  response,     \* fetchResponse.status of the current attempt
  lastError,
  delay,        \* the backoff delay being slept
  result,       \* images returned by the call
  error,        \* error thrown by the call
  netLog,       \* requests issued: attempt number and body
  readLog,      \* files read by fileToBase64
  outcomes,     \* what the provider did on each attempt
  autoSave,     \* AUTO_SAVE
  disk,         \* files seen by the save step: absolute path -> bytes
  dirs,         \* directories that exist
  quota,        \* tool calls each caller may still start
  sv,           \* per caller: the state of its tool call and save
  writeLog,     \* files written by writeFile, in order
  tc,           \* the tool call being validated and turned into a request
  http,         \* the HTTP request being received
  calls,        \* the activation records of concurrent callGeminiGenerate calls
  fn            \* a pure function being applied: its input and output

saveVars == << autoSave, disk, dirs, quota, sv, writeLog >>

vars ==
  << envKey, files, request, pc, idx, imageParts, requestBody, attempt,
     timerArmed, response, lastError, delay, result, error, netLog, readLog,
     outcomes, autoSave, disk, dirs, quota, sv, writeLog, tc, http, calls, fn >>

\* the state of the other parts of the program
auxVars == << tc, http, calls, fn >>

\* the value of a variable that a specification does not use
Unused == << >>

\* the callers of the tools
Savers == {1, 2}

NoImage == [imageBase64 |-> <<>>, mimeType |-> ""]

\* a caller with no tool call in progress
IdleCall ==
  [pc |-> "idle", tool |-> <<>>, hint |-> None, first |-> NoImage, now |-> <<>>,
   targetPath |-> None, extension |-> <<>>, resolved |-> <<>>, dir |-> <<>>,
   name |-> <<>>, finalPath |-> <<>>, counter |-> 0, savedPath |-> None,
   err |-> NullError, fsOps |-> <<>>, startDisk |-> <<>>, startDirs |-> {},
   overlapped |-> FALSE, content |-> <<>>, results |-> <<>>]

GEMINI_API_KEY == ApiKeyOf(envKey)

\* request.images as the list toInlineDataParts iterates over
Inputs == Coalesce(request.images, <<>>)

Outcome(kind, st, json, text) ==
  [attempt |-> attempt, kind |-> kind, status |-> st, json |-> json, text |-> text]

Init ==
  /\ envKey \in EnvKeys
  /\ files = InitialFiles
  /\ request \in GenerateRequests
  /\ pc = "idle"
  /\ idx = 0
  /\ imageParts = <<>>
  /\ requestBody = None
  /\ attempt = 0
  /\ timerArmed = FALSE
  /\ response = 0
  /\ lastError = NullError
  /\ delay = 0
  /\ result = <<>>
  /\ error = NullError
  /\ netLog = <<>>
  /\ readLog = <<>>
  /\ outcomes = <<>>
  /\ autoSave = TRUE
  /\ disk = InitialDisk
  /\ dirs = InitialDirs
  /\ quota = [p \in Savers |-> 0]
  /\ sv = [p \in Savers |-> IdleCall]
  /\ writeLog = <<>>
  /\ tc = Unused
  /\ http = Unused
  /\ calls = Unused
  /\ fn = Unused

\* ------------------------------------------------------------------------
\* Control-flow fragments of callGeminiGenerate
\* ------------------------------------------------------------------------
\* an exception leaves the function
Throw(err) ==
  /\ pc' = "thrown"
  /\ error' = err
  /\ UNCHANGED << attempt, lastError, delay, result >>

\* variant: the loop counter is not advanced
NextAttempt_Same(att) == att

\* attempt++
NextAttempt(att) == att + 1

\* end of a loop iteration that did not leave the function:
\* if (attempt < MAX_RETRIES) await sleep(calculateDelay(attempt)); attempt++
EndOfIteration ==
  /\ IF attempt < MAX_RETRIES
       THEN /\ pc' = "sleeping"
            /\ \E j \in Jitters : delay' = calculateDelay(attempt, j)
            /\ UNCHANGED attempt
       ELSE /\ pc' = "loop"
            /\ attempt' = NextAttempt(attempt)
            /\ UNCHANGED delay
  /\ UNCHANGED << result, error >>

\* variant: the timer is left pending
clearTimeout_Forgotten(armed) == armed

\* clearTimeout(timeoutId): whether the timer is pending afterwards
clearTimeout(armed) == FALSE

\* the catch block of the loop body
Catch(err) ==
  /\ timerArmed' = clearTimeout(timerArmed)
  /\ IF IsAbort(err)
       THEN Throw(TimeoutError)
       ELSE IF IsLastAttempt(attempt)
         THEN Throw(Rethrown(err))
         ELSE lastError' = err /\ EndOfIteration

\* ------------------------------------------------------------------------
\* Actions
\* ------------------------------------------------------------------------
\* callGeminiGenerate is entered: credential check
CallGeminiGenerate ==
  /\ pc = "idle"
  /\ IF CredentialMissing(GEMINI_API_KEY)
       THEN /\ pc' = "thrown"
            /\ error' = CredentialError
            /\ UNCHANGED idx
       ELSE /\ pc' = "resolving"
            /\ idx' = 1
            /\ UNCHANGED error
  /\ UNCHANGED << envKey, files, request, imageParts, requestBody, attempt,
                  timerArmed, response, lastError, delay, result, netLog,
                  readLog, outcomes >>
  /\ UNCHANGED saveVars
  /\ UNCHANGED auxVars

\* toInlineDataParts: one iteration of the loop over the inputs
ResolveInput ==
  /\ pc = "resolving"
  /\ idx <= Len(Inputs)
  /\ LET input == Inputs[idx]
         mime == Coalesce(input.mimeType, "image/png")
         read == NeedsFileRead(input)
         readOk == read /\ input.path[1] \in DOMAIN files
         data == IF read
                   THEN IF readOk THEN Some(Base64Encode(files[input.path[1]]))
                                  ELSE None
                   ELSE input.dataBase64
     IN  /\ readLog' = IF read
                         THEN Append(readLog, [input |-> idx, path |-> input.path[1]])
                         ELSE readLog
         /\ IF read /\ ~readOk
              THEN /\ pc' = "thrown"
                   /\ error' = ReadFileError(input.path[1])
                   /\ UNCHANGED << idx, imageParts >>
              ELSE IF MissingData(data)
                THEN /\ pc' = "thrown"
                     /\ error' = InputError
                     /\ UNCHANGED << idx, imageParts >>
                ELSE /\ imageParts' =
                          Append(imageParts,
                                 [inline_data |-> [mime_type |-> mime,
                                                  data |-> Coalesce(data, <<>>)]])
                     /\ idx' = idx + 1
                     /\ UNCHANGED << pc, error >>
  /\ UNCHANGED << envKey, files, request, requestBody, attempt, timerArmed,
                  response, lastError, delay, result, netLog, outcomes >>
  /\ UNCHANGED saveVars
  /\ UNCHANGED auxVars

\* the request body is built once, before the retry loop
BuildRequest ==
  /\ pc = "resolving"
  /\ idx > Len(Inputs)
  /\ requestBody' =
       Some([contents |-> << [parts |-> BuildParts([text |-> request.prompt], imageParts)] >>])
  /\ lastError' = NullError
  /\ attempt' = 0
  /\ pc' = "loop"
  /\ UNCHANGED << envKey, files, request, idx, imageParts, timerArmed, response,
                  delay, result, error, netLog, readLog, outcomes >>
  /\ UNCHANGED saveVars
  /\ UNCHANGED auxVars

\* head of the loop: arm the timer and issue the request, or leave the loop
StartAttempt ==
  /\ pc = "loop"
  /\ IF LoopContinues(attempt)
       THEN /\ timerArmed' = TRUE
            /\ netLog' = Append(netLog, [attempt |-> attempt,
                                         key |-> GEMINI_API_KEY,
                                         body |-> requestBody[1]])
            /\ pc' = "fetching"
            /\ UNCHANGED error
       ELSE /\ pc' = "thrown"
            /\ error' = IF lastError # NullError THEN lastError ELSE MaxRetriesError
            /\ UNCHANGED << timerArmed, netLog >>
  /\ UNCHANGED << envKey, files, request, idx, imageParts, requestBody, attempt,
                  response, lastError, delay, result, readLog, outcomes >>
  /\ UNCHANGED saveVars
  /\ UNCHANGED auxVars

\* fetch resolves with a status line; the timer is cleared
FetchResolves ==
  /\ pc = "fetching"
  /\ \E st \in Statuses :
       /\ response' = st
       /\ pc' = IF ResponseOk(st) THEN "readingJson" ELSE "readingText"
  /\ timerArmed' = clearTimeout(timerArmed)
  /\ UNCHANGED << envKey, files, request, idx, imageParts, requestBody, attempt,
                  lastError, delay, result, error, netLog, readLog, outcomes >>
  /\ UNCHANGED saveVars
  /\ UNCHANGED auxVars

\* fetch rejects with a network error
FetchRejects ==
  /\ pc = "fetching"
  /\ outcomes' = Append(outcomes, Outcome("network", 0, None, ""))
  /\ Catch(NetworkError)
  /\ UNCHANGED << envKey, files, request, idx, imageParts, requestBody, response,
                  netLog, readLog >>
  /\ UNCHANGED saveVars
  /\ UNCHANGED auxVars

\* the timer fires while fetch is pending: controller.abort()
TimerFires ==
  /\ pc = "fetching"
  /\ timerArmed
  /\ outcomes' = Append(outcomes, Outcome("timeout", 0, None, ""))
  /\ Catch(AbortError)
  /\ UNCHANGED << envKey, files, request, idx, imageParts, requestBody, response,
                  netLog, readLog >>
  /\ UNCHANGED saveVars
  /\ UNCHANGED auxVars

\* fetchResponse.json() resolves: the images of the first candidate
JsonResolves ==
  /\ pc = "readingJson"
  /\ \E json \in JsonBodies :
       LET images == ExtractImages(FirstParts(json))
       IN  /\ outcomes' = Append(outcomes, Outcome("status", response, Some(json), ""))
           /\ IF Len(images) = 0
                THEN Catch(NoImageError)
                ELSE /\ result' = images
                     /\ pc' = "returned"
                     /\ UNCHANGED << attempt, timerArmed, lastError, delay, error >>
  /\ UNCHANGED << envKey, files, request, idx, imageParts, requestBody, response,
                  netLog, readLog >>
  /\ UNCHANGED saveVars
  /\ UNCHANGED auxVars

\* fetchResponse.text() resolves with the body of an error response
TextResolves ==
  /\ pc = "readingText"
  /\ \E text \in ErrorTexts :
       LET err == ApiError(response, text)
       IN  /\ outcomes' = Append(outcomes, Outcome("status", response, None, text))
           /\ IF ~shouldRetry(response) \/ IsLastAttempt(attempt)
                THEN Catch(err)
                ELSE /\ lastError' = err
                     /\ EndOfIteration
                     /\ UNCHANGED timerArmed
  /\ UNCHANGED << envKey, files, request, idx, imageParts, requestBody, response,
                  netLog, readLog >>
  /\ UNCHANGED saveVars
  /\ UNCHANGED auxVars

\* reading the response body fails (connection lost, unparsable JSON)
BodyRejects ==
  /\ pc \in {"readingJson", "readingText"}
  /\ outcomes' = Append(outcomes, Outcome("body", 0, None, ""))
  /\ Catch(BodyError)
  /\ UNCHANGED << envKey, files, request, idx, imageParts, requestBody, response,
                  netLog, readLog >>
  /\ UNCHANGED saveVars
  /\ UNCHANGED auxVars

\* the backoff delay elapses; the loop counter is incremented
SleepElapses ==
  /\ pc = "sleeping"
  /\ delay' = 0
  /\ attempt' = NextAttempt(attempt)
  /\ pc' = "loop"
  /\ UNCHANGED << envKey, files, request, idx, imageParts, requestBody, timerArmed,
                  response, lastError, result, error, netLog, readLog, outcomes >>
  /\ UNCHANGED saveVars
  /\ UNCHANGED auxVars

Next ==
  \/ CallGeminiGenerate
  \/ ResolveInput
  \/ BuildRequest
  \/ StartAttempt
  \/ FetchResolves
  \/ FetchRejects
  \/ TimerFires
  \/ JsonResolves
  \/ TextResolves
  \/ BodyRejects
  \/ SleepElapses

Spec == Init /\ [][Next]_vars

\* The calls with at most one input image, under the assumption that every
\* pending promise settles: the fetch resolves, rejects or is aborted by the
\* timer, the read of the body resolves or rejects, and the timer of sleep
\* fires.  The event loop then runs the continuation, which is the next
\* step of the call.
LiveInit ==
  /\ Init
  /\ request.images # None => Len(request.images[1]) <= 1

LiveSpec == LiveInit /\ [][Next]_vars /\ WF_vars(Next)

TypeOK ==
  /\ pc \in {"idle", "resolving", "loop", "fetching", "readingJson", "readingText",
             "sleeping", "returned", "thrown"}
  /\ attempt \in 0..(MAX_RETRIES + 1)
  /\ timerArmed \in BOOLEAN

\* ------------------------------------------------------------------------
\* The tool handlers and maybeSaveImage.  The four handlers run the same
\* steps after the pipeline returns; the pipeline is represented here by its
\* result (the first image of a list it can return, or an error).
\* ------------------------------------------------------------------------
MaxCalls == 2

pipelineVars ==
  << envKey, files, request, pc, idx, imageParts, requestBody, attempt,
     timerArmed, response, lastError, delay, result, error, netLog, readLog,
     outcomes >>

\* the lists callGeminiGenerate can return
ResultLists ==
  { ExtractImages(FirstParts(j)) : j \in JsonBodies } \ { <<>> }

\* variant: the handler takes the last image of the list
FirstResult_Last(results) == results[Len(results)]

\* const first = results[0]
FirstResult(results) == results[1]

\* results[0] of the lists callGeminiGenerate can return
FirstImages == { results[1] : results \in ResultLists }

\* the calls made: each tool without a path, and each path with one tool
ToolArguments ==
  { << tool, None >> : tool \in Tools }
    \cup { << << "generate" >>, hint >> : hint \in SaveHints }

SaveError(cause) == Err("Error", "Failed to save image", 0, cause)

\* variant: the existence check never finds a file
Exists_Never(path) == FALSE

\* access(path) resolves
Exists(path) == path \in DOMAIN disk \/ path \in dirs

\* variant: a failed mkdir is ignored
NextAfterMkdir_Ignore(ok) == "access"

\* the step after mkdir: the collision loop, or the throw
NextAfterMkdir(ok) == IF ok THEN "access" ELSE "failed"

\* variant: a failed write is tried again
NextAfterWrite_Retry(ok) == IF ok THEN "done" ELSE "write"

\* the step after writeFile: return finalPath, or the throw
NextAfterWrite(ok) == IF ok THEN "done" ELSE "failed"

\* variant: an existing file keeps its content
PutFile_KeepExisting(fs, path, bytes) ==
  [q \in DOMAIN fs \cup {path} |-> IF q \in DOMAIN fs THEN fs[q] ELSE bytes]

\* the file system after path is given the content bytes
PutFile(fs, path, bytes) ==
  [q \in DOMAIN fs \cup {path} |-> IF q = path THEN bytes ELSE fs[q]]

\* variant: the image is part of every response
IncludesImage_Always(savedPath) == TRUE

\* if (!savedPath)
IncludesImage(savedPath) == ~Truthy(savedPath)

\* the text item of a response: of its text, the path it reports (if any)
\* and the format
TextItem(savedPath, first) ==
  [type |-> "text", savedTo |-> savedPath, mimeType |-> first.mimeType,
   data |-> <<>>]

\* { type: 'image', mimeType: first.mimeType, data: first.imageBase64 }
ImageItem(first) ==
  [type |-> "image", savedTo |-> None, mimeType |-> first.mimeType,
   data |-> first.imageBase64]

\* responseContent of a handler, once maybeSaveImage has returned savedPath
ResponseContent(savedPath, first) ==
  << TextItem(savedPath, first) >>
    \o (IF IncludesImage(savedPath) THEN << ImageItem(first) >> ELSE <<>>)

\* the caller is between the start of maybeSaveImage's work and its end
InSave(q) == sv[q].pc \in {"mkdir", "access", "write"}

FsOp(op, path) == [op |-> op, path |-> path]

SaveInit ==
  /\ envKey = Some(<<" ", "k">>)
  /\ files = InitialFiles
  /\ request = [prompt |-> "draw a cat", images |-> None]
  /\ pc = "idle"
  /\ idx = 0
  /\ imageParts = <<>>
  /\ requestBody = None
  /\ attempt = 0
  /\ timerArmed = FALSE
  /\ response = 0
  /\ lastError = NullError
  /\ delay = 0
  /\ result = <<>>
  /\ error = NullError
  /\ netLog = <<>>
  /\ readLog = <<>>
  /\ outcomes = <<>>
  /\ autoSave \in BOOLEAN
  /\ disk = InitialDisk
  /\ dirs = InitialDirs
  /\ quota \in { (1 :> MaxCalls @@ 2 :> 0), (1 :> 1 @@ 2 :> 1) }
  /\ sv = [p \in Savers |-> IdleCall]
  /\ writeLog = <<>>
  /\ tc = Unused
  /\ http = Unused
  /\ calls = Unused
  /\ fn = Unused

\* variant: the handler creates the directory of a given path before it
\* calls the pipeline
DirsBeforePipeline_Eager(hint) ==
  IF Truthy(hint) /\ validateFilePath(hint[1])
    THEN AncestorsOf(dirname(resolve(hint[1])))
    ELSE {}

\* directories a handler creates before callGeminiGenerate is awaited: the
\* handler only destructures its arguments
DirsBeforePipeline(hint) == {}

\* a tool is called; its arguments pass the schema or the call is rejected
ToolCall(p) ==
  /\ sv[p].pc \in {"idle", "done", "failed", "rejected"}
  /\ quota[p] > 0
  /\ quota' = [quota EXCEPT ![p] = @ - 1]
  /\ \E tool \in Tools, hint \in SaveHints :
       /\ << tool, hint >> \in ToolArguments
       /\ sv' = [sv EXCEPT ![p] =
                   [IdleCall EXCEPT
                      !.tool = tool,
                      !.hint = hint,
                      !.pc = IF ~Truthy(hint) \/ validateFilePath(hint[1])
                               THEN "pipeline" ELSE "rejected"]]
       /\ dirs' = dirs \cup DirsBeforePipeline(hint)
  /\ UNCHANGED << autoSave, disk, writeLog >>
  /\ UNCHANGED pipelineVars
  /\ UNCHANGED auxVars

\* errors callGeminiGenerate throws: credential check, input resolution,
\* provider call
PipelineErrors == { CredentialError, InputError, ApiError(503, "quota exceeded") }

\* variant: the handler answers normally after the pipeline threw
NextAfterThrow_Swallow == "done"

\* the handler's step after callGeminiGenerate threw: the error leaves the
\* handler
NextAfterThrow == "failed"

\* callGeminiGenerate throws: the handler fails without saving
PipelineThrows(p) ==
  /\ sv[p].pc = "pipeline"
  /\ \E err \in PipelineErrors :
       sv' = [sv EXCEPT ![p].pc = NextAfterThrow, ![p].err = err]
  /\ UNCHANGED << autoSave, disk, dirs, quota, writeLog >>
  /\ UNCHANGED pipelineVars
  /\ UNCHANGED auxVars

\* callGeminiGenerate returns; the handler picks the save path and
\* maybeSaveImage runs up to its call of mkdir, or returns undefined at once
\* and the handler builds its response
PipelineReturns(p) ==
  /\ sv[p].pc = "pipeline"
  /\ \E results \in ResultLists, iso \in Timestamps :
       LET first == FirstResult(results)
           generated == generateDefaultFileName(sv[p].tool, first.mimeType, iso)
           target == FinalSavePath(sv[p].hint, autoSave, generated)
           used == ~Truthy(sv[p].hint) /\ Truthy(target)
           others == { q \in Savers \ {p} : InSave(q) }
       IN  IF ~Truthy(target)
             THEN sv' = [sv EXCEPT ![p].pc = "done", ![p].first = first,
                                   ![p].results = results,
                                   ![p].content = ResponseContent(None, first)]
             ELSE LET extension == SaveExtension(target[1], first.mimeType)
                      resolved == resolve(SaveBasePath(target[1], first.mimeType))
                  IN  sv' = [q \in Savers |->
                               IF q = p
                                 THEN [sv[p] EXCEPT
                                         !.pc = "mkdir",
                                         !.first = first,
                                         !.results = results,
                                         !.now = IF used THEN iso ELSE <<>>,
                                         !.targetPath = target,
                                         !.extension = extension,
                                         !.resolved = resolved,
                                         !.dir = dirname(resolved),
                                         !.name = basename(resolved, extension),
                                         !.startDisk = disk,
                                         !.startDirs = dirs,
                                         !.overlapped = others # {}]
                                 ELSE IF q \in others
                                   THEN [sv[q] EXCEPT !.overlapped = TRUE]
                                   ELSE sv[q]]
  /\ UNCHANGED << autoSave, disk, dirs, quota, writeLog >>
  /\ UNCHANGED pipelineVars
  /\ UNCHANGED auxVars

\* await mkdir(dir, { recursive: true })
Mkdir(p) ==
  /\ sv[p].pc = "mkdir"
  /\ \E permitted \in BOOLEAN :
       LET dir == sv[p].dir
           blocked == \E a \in AncestorsOf(dir) : a \in DOMAIN disk
           ok == ~blocked /\ (permitted \/ dir \in dirs)
           nxt == NextAfterMkdir(ok)
       IN  /\ dirs' = IF ok THEN dirs \cup AncestorsOf(dir) ELSE dirs
           /\ sv' = [sv EXCEPT
                       ![p].pc = nxt,
                       ![p].fsOps = Append(@, FsOp("mkdir", dir)),
                       ![p].finalPath = sv[p].resolved,
                       ![p].counter = 0,
                       ![p].err = IF nxt = "failed"
                                    THEN SaveError("Failed to create directory")
                                    ELSE @]
  /\ UNCHANGED << autoSave, disk, quota, writeLog >>
  /\ UNCHANGED pipelineVars
  /\ UNCHANGED auxVars

\* one iteration of the collision loop: await access(finalPath)
Access(p) ==
  /\ sv[p].pc = "access"
  /\ IF Exists(sv[p].finalPath)
       THEN sv' = [sv EXCEPT
                     ![p].fsOps = Append(@, FsOp("access", sv[p].finalPath)),
                     ![p].counter = @ + 1,
                     ![p].finalPath = SuffixedPath(sv[p].dir, sv[p].name,
                                                   sv[p].counter + 1, sv[p].extension)]
       ELSE sv' = [sv EXCEPT
                     ![p].fsOps = Append(@, FsOp("access", sv[p].finalPath)),
                     ![p].pc = "write"]
  /\ UNCHANGED << autoSave, disk, dirs, quota, writeLog >>
  /\ UNCHANGED pipelineVars
  /\ UNCHANGED auxVars

\* await writeFile(finalPath, Buffer.from(base64, 'base64')); maybeSaveImage
\* returns finalPath and the handler builds its response
WriteFile(p) ==
  /\ sv[p].pc = "write"
  /\ \E outcome \in {"written", "nothing"} :
       LET path == sv[p].finalPath
           buffer == Base64Decode(sv[p].first.imageBase64)
           ok == outcome = "written" /\ path \notin dirs
           nxt == NextAfterWrite(ok)
       IN  /\ disk' = IF ok THEN PutFile(disk, path, buffer)
                      ELSE IF outcome = "truncated" /\ path \notin dirs
                        THEN PutFile(disk, path, <<>>)
                        ELSE disk
           /\ writeLog' = IF ok
                            THEN Append(writeLog,
                                        [caller |-> p, path |-> path, bytes |-> buffer,
                                         overlapped |-> sv[p].overlapped])
                            ELSE writeLog
           /\ sv' = [sv EXCEPT
                       ![p].pc = nxt,
                       ![p].fsOps = Append(@, FsOp("writeFile", path)),
                       ![p].savedPath = IF ok THEN Some(path) ELSE @,
                       ![p].content = IF nxt = "done"
                                        THEN ResponseContent(Some(path), sv[p].first)
                                        ELSE @,
                       ![p].err = IF nxt = "failed" THEN SaveError("ENOSPC") ELSE @]
  /\ UNCHANGED << autoSave, dirs, quota >>
  /\ UNCHANGED pipelineVars
  /\ UNCHANGED auxVars

SaveNext ==
  \/ \E p \in Savers : ToolCall(p)
  \/ \E p \in Savers : PipelineThrows(p)
  \/ \E p \in Savers : PipelineReturns(p)
  \/ \E p \in Savers : Mkdir(p)
  \/ \E p \in Savers : Access(p)
  \/ \E p \in Savers : WriteFile(p)

SaveSpec == SaveInit /\ [][SaveNext]_vars

SaveTypeOK ==
  /\ \A p \in Savers :
       sv[p].pc \in {"idle", "rejected", "pipeline", "mkdir", "access", "write",
                     "done", "failed"}
  /\ autoSave \in BOOLEAN

\* ------------------------------------------------------------------------
\* The tool schemas and the request each handler builds.  The content of an
\* image is represented by its length, the only thing the schemas and
\* toInlineDataParts look at besides its truthiness.
\* ------------------------------------------------------------------------
PROMPT_MIN == 1
PROMPT_MAX == 2000
MIN_IMAGES == 2
MAX_IMAGES == 10
MAX_IMAGE_SIZE == 20 * 1024 * 1024

\* Math.ceil((MAX_IMAGE_SIZE * 4) / 3)
MAX_BASE64_SIZE == (MAX_IMAGE_SIZE * 4 + 2) \div 3

ALLOWED_MIME_TYPES == {"image/png", "image/jpeg", "image/jpg", "image/webp", "image/gif"}

\* the rest position of the pipeline variables
PipelineAtRest ==
  /\ envKey = Some(<<" ", "k">>)
  /\ files = InitialFiles
  /\ request = [prompt |-> "draw a cat", images |-> None]
  /\ pc = "idle"
  /\ idx = 0
  /\ imageParts = <<>>
  /\ requestBody = None
  /\ attempt = 0
  /\ timerArmed = FALSE
  /\ response = 0
  /\ lastError = NullError
  /\ delay = 0
  /\ result = <<>>
  /\ error = NullError
  /\ netLog = <<>>
  /\ readLog = <<>>
  /\ outcomes = <<>>

\* the rest position of the save variables
SaveAtRest ==
  /\ autoSave = TRUE
  /\ disk = InitialDisk
  /\ dirs = InitialDirs
  /\ quota = [p \in Savers |-> 0]
  /\ sv = [p \in Savers |-> IdleCall]
  /\ writeLog = <<>>

\* a string of n characters
Str(n) == [length |-> n]

\* !s for an optional string known by its length
TruthyData(opt) == opt # None /\ opt[1].length > 0

\* the destructuring default of style_transfer's prompt
DEFAULT_STYLE_PROMPT ==
  << "A", "p", "p", "l", "y", " ", "t", "h", "e", " ", "s", "t",
     "y", "l", "e", " ", "o", "f", " ", "t", "h", "e", " ", "s",
     "e", "c", "o", "n", "d", " ", "i", "m", "a", "g", "e", " ",
     "t", "o", " ", "t", "h", "e", " ", "f", "i", "r", "s", "t",
     " ", "i", "m", "a", "g", "e", " ", "w", "h", "i", "l", "e",
     " ", "p", "r", "e", "s", "e", "r", "v", "i", "n", "g", " ",
     "t", "h", "e", " ", "o", "r", "i", "g", "i", "n", "a", "l",
     " ", "c", "o", "n", "t", "e", "n", "t" >>

\* a prompt of n characters
PromptOf(n) == [i \in 1..n |-> "p"]

\* prompt arguments: absent, empty, and at and around the limits
PromptArguments ==
  { None, Some(<<>>), Some(PromptOf(PROMPT_MIN)), Some(PromptOf(PROMPT_MAX)),
    Some(PromptOf(PROMPT_MAX + 1)) }

\* sizes in bytes of the image files a path argument can name
FileSizes ==
  (<< "a", ".", "png" >> :> 3) @@ (<< "big", ".", "png" >> :> 2 * MAX_IMAGE_SIZE)

ImageArg(data, path, mime) == [dataBase64 |-> data, path |-> path, mimeType |-> mime]

SmallData == ImageArg(Some(Str(4)), None, Some("image/png"))
LimitData == ImageArg(Some(Str(MAX_BASE64_SIZE)), None, None)
OversizeData == ImageArg(Some(Str(MAX_BASE64_SIZE + 1)), None, None)
SmallFile == ImageArg(None, Some(<< "a", ".", "png" >>), Some("image/jpeg"))
BigFile == ImageArg(None, Some(<< "big", ".", "png" >>), None)
EmptyDataAndFile == ImageArg(Some(Str(0)), Some(<< "a", ".", "png" >>), None)
NoSource == ImageArg(None, None, None)
BadMime == ImageArg(Some(Str(4)), None, Some("image/tiff"))
OutsideFile == ImageArg(None, Some(<< ".", ".", "/", "a", ".", "png" >>), None)

ImageArguments ==
  { SmallData, LimitData, OversizeData, SmallFile, BigFile, EmptyDataAndFile,
    NoSource, BadMime, OutsideFile }

\* a list of n images, small data and small file in turn
ImageList(n) == [i \in 1..n |-> IF i % 2 = 1 THEN SmallData ELSE SmallFile]

ImageListArguments ==
  { ImageList(n) : n \in {0, MIN_IMAGES - 1, MIN_IMAGES, MIN_IMAGES + 1,
                          MAX_IMAGES, MAX_IMAGES + 1} }
    \cup { << SmallFile, BigFile >>, << SmallData, NoSource >>,
           << SmallFile, SmallData, LimitData >> }

\* the arguments of a call, by tool
ToolCalls ==
  { [tool |-> "generate_image", prompt |-> p, images |-> <<>>] : p \in PromptArguments }
    \cup { [tool |-> "edit_image", prompt |-> p, images |-> << i >>] :
             p \in PromptArguments, i \in ImageArguments }
    \cup { [tool |-> "compose_images", prompt |-> p, images |-> l] :
             p \in {Some(PromptOf(PROMPT_MIN)), Some(<<>>)}, l \in ImageListArguments }
    \cup { [tool |-> "style_transfer", prompt |-> p, images |-> << b, s >>] :
             p \in PromptArguments,
             b \in {SmallData, SmallFile, BigFile, NoSource},
             s \in {SmallData, SmallFile, OversizeData} }

\* validateMimeType
validateMimeType(mimeType) == ToLowerCase(mimeType) \in ALLOWED_MIME_TYPES

\* validateBase64Size
validateBase64Size(base64) == base64.length <= MAX_BASE64_SIZE

\* z.string().min(1).max(2000)
PromptSchema(prompt) ==
  /\ prompt # None
  /\ Len(prompt[1]) >= PROMPT_MIN
  /\ Len(prompt[1]) <= PROMPT_MAX

\* z.string().optional().refine(text => !text || (1 <= length <= 2000))
OptionalPromptSchema(prompt) ==
  \/ ~Truthy(prompt)
  \/ (Len(prompt[1]) >= PROMPT_MIN /\ Len(prompt[1]) <= PROMPT_MAX)

\* the object schema of one input image
ImageSchema(image) ==
  /\ ~TruthyData(image.dataBase64) \/ validateBase64Size(image.dataBase64[1])
  /\ ~Truthy(image.path) \/ validateFilePath(image.path[1])
  /\ ~TruthyStr(image.mimeType) \/ validateMimeType(image.mimeType[1])
  /\ TruthyData(image.dataBase64) \/ Truthy(image.path)

\* the schema of the call's arguments
ArgumentsSchema(call) ==
  CASE call.tool = "generate_image" -> PromptSchema(call.prompt)
    [] call.tool = "edit_image" ->
         PromptSchema(call.prompt) /\ ImageSchema(call.images[1])
    [] call.tool = "compose_images" ->
         /\ PromptSchema(call.prompt)
         /\ \A i \in 1..Len(call.images) : ImageSchema(call.images[i])
         /\ Len(call.images) >= MIN_IMAGES
         /\ Len(call.images) <= MAX_IMAGES
    [] call.tool = "style_transfer" ->
         /\ OptionalPromptSchema(call.prompt)
         /\ ImageSchema(call.images[1])
         /\ ImageSchema(call.images[2])

\* variant: the style image comes first
StyleImages_StyleFirst(baseImage, styleImage) == << styleImage, baseImage >>

\* images: [baseImage, styleImage]
StyleImages(baseImage, styleImage) == << baseImage, styleImage >>

\* the GenerateRequest the handler passes to callGeminiGenerate
HandlerRequest(call) ==
  CASE call.tool = "generate_image" ->
         [prompt |-> call.prompt[1], images |-> None]
    [] call.tool = "edit_image" ->
         [prompt |-> call.prompt[1], images |-> Some(<< call.images[1] >>)]
    [] call.tool = "compose_images" ->
         [prompt |-> call.prompt[1], images |-> Some(call.images)]
    [] call.tool = "style_transfer" ->
         [prompt |-> Coalesce(call.prompt, DEFAULT_STYLE_PROMPT),
          images |-> Some(StyleImages(call.images[1], call.images[2]))]

\* buf.toString('base64').length for a file of n bytes
Base64Length(n) == 4 * ((n + 2) \div 3)

\* toInlineDataParts for one input: the part, by the length of its data
InlineDataPart(input) ==
  [mime_type |-> Coalesce(input.mimeType, "image/png"),
   data |-> IF TruthyData(input.dataBase64) THEN input.dataBase64[1]
            ELSE Str(Base64Length(FileSizes[input.path[1]]))]

NoToolCall == [tool |-> "", prompt |-> None, images |-> <<>>]
NoRequest == [prompt |-> <<>>, images |-> None]

ToolInit ==
  /\ PipelineAtRest
  /\ SaveAtRest
  /\ tc = [pc |-> "idle", call |-> NoToolCall, request |-> NoRequest, parts |-> <<>>]
  /\ http = Unused
  /\ calls = Unused
  /\ fn = Unused

\* the MCP server validates the arguments and, if they pass, runs the handler
\* up to its call of callGeminiGenerate
ToolInvoked ==
  /\ tc.pc = "idle"
  /\ \E call \in ToolCalls :
       IF ArgumentsSchema(call)
         THEN tc' = [tc EXCEPT !.pc = "pipeline", !.call = call,
                               !.request = HandlerRequest(call)]
         ELSE tc' = [tc EXCEPT !.pc = "rejected", !.call = call]
  /\ UNCHANGED << pipelineVars, saveVars, http, calls, fn >>

\* callGeminiGenerate builds the parts of the provider request
PartsBuilt ==
  /\ tc.pc = "pipeline"
  /\ LET inputs == Coalesce(tc.request.images, <<>>)
     IN  tc' = [tc EXCEPT !.pc = "sent",
                          !.parts = << [text |-> tc.request.prompt] >>
                                      \o [i \in 1..Len(inputs) |-> InlineDataPart(inputs[i])]]
  /\ UNCHANGED << pipelineVars, saveVars, http, calls, fn >>

ToolNext == ToolInvoked \/ PartsBuilt

ToolSpec == ToolInit /\ [][ToolNext]_vars

ToolTypeOK == tc.pc \in {"idle", "rejected", "pipeline", "sent"}

\* ------------------------------------------------------------------------
\* HTTP mode: the request handler of main.  A chunk of the body is
\* represented by its length in bytes.
\* ------------------------------------------------------------------------
MaxChunks == 3

MAX_BODY_SIZE == 10 * 1024 * 1024

\* lengths of the chunks a client can send
ChunkSizes == {1, 5 * 1024 * 1024, MAX_BODY_SIZE}

RECURSIVE SumOf(_)
SumOf(sizes) == IF sizes = <<>> THEN 0 ELSE sizes[1] + SumOf(Tail(sizes))

\* variant: the limit is never found to be crossed
ExceedsLimit_Never(totalSize) == FALSE

\* totalSize > MAX_BODY_SIZE
ExceedsLimit(totalSize) == totalSize > MAX_BODY_SIZE

\* process.env.MCP_HTTP_PATH ?? '/mcp'
MCP_HTTP_PATH == << "/", "m", "c", "p" >>

\* values of req.url
Urls ==
  { None,
    Some(<< "/", "m", "c", "p" >>),
    Some(<< "/", "m", "c", "p", "/", "x" >>),
    Some(<< "/", "m", "c", "p", "x" >>),
    Some(<< "/", "x", "/", "m", "c", "p" >>),
    Some(<< "/" >>) }

\* variant: every URL is served
UrlMatches_Any(url) == TRUE

\* req.url?.startsWith(path)
UrlMatches(url) == url # None /\ StartsWith(url[1], MCP_HTTP_PATH)

\* what transport.handleRequest does with a request
TransportOutcomes == {"responds", "throws", "throwsAfterHeaders"}

\* !res.headersSent
SendsError(headersSent) == ~headersSent

NoHttpRequest ==
  [pc |-> "listening", method |-> "", url |-> None, onPath |-> FALSE,
   wellFormed |-> FALSE, received |-> <<>>, chunks |-> <<>>, totalSize |-> 0,
   parsed |-> FALSE, forwarded |-> FALSE, statusCode |-> 0, responses |-> <<>>]

HttpInit ==
  /\ PipelineAtRest
  /\ SaveAtRest
  /\ tc = Unused
  /\ http = NoHttpRequest
  /\ calls = Unused
  /\ fn = Unused

\* a request arrives: the URL test, then the method test
RequestArrives ==
  /\ http.pc = "listening"
  /\ \E method \in {"GET", "POST"}, url \in Urls, wellFormed \in BOOLEAN :
       LET onPath == UrlMatches(url)
       IN  http' = [NoHttpRequest EXCEPT
                      !.method = method,
                      !.url = url,
                      !.onPath = onPath,
                      !.wellFormed = wellFormed,
                      !.statusCode = IF onPath THEN 0 ELSE 404,
                      !.responses = IF onPath THEN <<>> ELSE << 404 >>,
                      !.pc = IF ~onPath THEN "responded"
                             ELSE IF method = "POST" THEN "reading" ELSE "transport"]
  /\ UNCHANGED << pipelineVars, saveVars, tc, calls, fn >>

\* one iteration of for await (const chunk of req)
ChunkArrives ==
  /\ http.pc = "reading"
  /\ Len(http.received) < MaxChunks
  /\ \E size \in ChunkSizes :
       LET totalSize == http.totalSize + size
       IN  IF ExceedsLimit(totalSize)
             THEN http' = [http EXCEPT !.received = Append(@, size),
                                       !.totalSize = totalSize,
                                       !.statusCode = 413,
                                       !.responses = Append(@, 413),
                                       !.pc = "responded"]
             ELSE http' = [http EXCEPT !.received = Append(@, size),
                                       !.totalSize = totalSize,
                                       !.chunks = Append(@, size)]
  /\ UNCHANGED << pipelineVars, saveVars, tc, calls, fn >>

\* the body ends: Buffer.concat(chunks), JSON.parse
BodyEnds ==
  /\ http.pc = "reading"
  /\ LET raw == SumOf(http.chunks)
     IN  IF raw = 0
           THEN http' = [http EXCEPT !.pc = "transport"]
           ELSE IF http.wellFormed
             THEN http' = [http EXCEPT !.pc = "transport", !.parsed = TRUE]
             ELSE http' = [http EXCEPT !.pc = "responded", !.statusCode = 400,
                                       !.responses = Append(@, 400)]
  /\ UNCHANGED << pipelineVars, saveVars, tc, calls, fn >>

\* the stream of the request fails while the body is read: the catch block
BodyAborts ==
  /\ http.pc = "reading"
  /\ http' = [http EXCEPT !.pc = "responded",
                          !.statusCode = IF SendsError(FALSE) THEN 500 ELSE @,
                          !.responses = IF SendsError(FALSE) THEN Append(@, 500) ELSE @]
  /\ UNCHANGED << pipelineVars, saveVars, tc, calls, fn >>

\* await transport.handleRequest(req, res, parsedBody); when it throws, the
\* catch block answers 500 unless the headers are already sent
TransportHandles ==
  /\ http.pc = "transport"
  /\ \E outcome \in TransportOutcomes :
       LET headersSent == outcome # "throws"
           answered == IF headersSent THEN << 200 >> ELSE <<>>
           failed == outcome # "responds" /\ SendsError(headersSent)
       IN  http' = [http EXCEPT
                      !.pc = "responded",
                      !.forwarded = TRUE,
                      !.statusCode = IF failed THEN 500 ELSE 200,
                      !.responses = @ \o answered
                                      \o (IF failed THEN << 500 >> ELSE <<>>)]
  /\ UNCHANGED << pipelineVars, saveVars, tc, calls, fn >>

\* the response is complete; the server waits for the next request
RequestDone ==
  /\ http.pc = "responded"
  /\ http' = NoHttpRequest
  /\ UNCHANGED << pipelineVars, saveVars, tc, calls, fn >>

HttpNext ==
  \/ RequestArrives
  \/ ChunkArrives
  \/ BodyEnds
  \/ BodyAborts
  \/ TransportHandles
  \/ RequestDone

HttpSpec == HttpInit /\ [][HttpNext]_vars

HttpTypeOK ==
  /\ http.pc \in {"listening", "reading", "transport", "responded"}
  /\ http.statusCode \in {0, 200, 400, 404, 413, 500}

\* ------------------------------------------------------------------------
\* Two concurrent calls of callGeminiGenerate.  Each call owns an activation
\* record with the locals of the function (attempt, lastError); a call
\* yields at its awaits: fetch and the reading of the body, and sleep.
\* ------------------------------------------------------------------------
Callers == {1, 2}

\* what the provider does with one attempt
ProviderOutcomes == {"images", "unavailable", "badRequest", "timeout"}

\* the error an attempt with this outcome raises inside the loop body
OutcomeError(outcome) ==
  CASE outcome = "unavailable" -> ApiError(503, "quota exceeded")
    [] outcome = "badRequest"  -> ApiError(400, "quota exceeded")
    [] outcome = "timeout"     -> AbortError
    [] OTHER                   -> NullError

\* variant: the locals live in one record shared by all calls
Activation_Shared(p) == 1

\* the activation record of call p
Activation(p) == p

IdleControl == [pc |-> "idle", outcomes |-> <<>>, error |-> NullError, result |-> <<>>]
NewFrame == [attempt |-> 0, lastError |-> NullError]

PairInit ==
  /\ PipelineAtRest
  /\ SaveAtRest
  /\ tc = Unused
  /\ http = Unused
  /\ calls = [ctl |-> [p \in Callers |-> IdleControl],
              frame |-> [a \in Callers |-> NewFrame]]
  /\ fn = Unused

AttemptOf(p) == calls.frame[Activation(p)].attempt

\* the call starts: let lastError = null; attempt = 0; the loop test
CallStarts(p) ==
  /\ calls.ctl[p].pc = "idle"
  /\ calls' = [calls EXCEPT !.ctl[p].pc = "fetching",
                            !.frame[Activation(p)] = NewFrame]
  /\ UNCHANGED << pipelineVars, saveVars, tc, http, fn >>

\* the attempt in flight settles and the loop body runs to its next await,
\* to the return or to the throw
AttemptSettles(p) ==
  /\ calls.ctl[p].pc = "fetching"
  /\ \E outcome \in ProviderOutcomes :
       LET err == OutcomeError(outcome)
           log == Append(calls.ctl[p].outcomes, outcome)
       IN  IF outcome = "images"
             THEN calls' = [calls EXCEPT !.ctl[p].pc = "returned",
                                         !.ctl[p].outcomes = log,
                                         !.ctl[p].result = << "image" >>]
             ELSE IF IsAbort(err)
               THEN calls' = [calls EXCEPT !.ctl[p].pc = "thrown",
                                           !.ctl[p].outcomes = log,
                                           !.ctl[p].error = TimeoutError]
               ELSE IF IsLastAttempt(AttemptOf(p))
                 THEN calls' = [calls EXCEPT !.ctl[p].pc = "thrown",
                                             !.ctl[p].outcomes = log,
                                             !.ctl[p].error = err]
                 ELSE calls' = [calls EXCEPT !.ctl[p].pc = "sleeping",
                                             !.ctl[p].outcomes = log,
                                             !.frame[Activation(p)].lastError = err]
  /\ UNCHANGED << pipelineVars, saveVars, tc, http, fn >>

\* the backoff delay elapses: attempt++, the loop test, the next fetch
CallWakes(p) ==
  /\ calls.ctl[p].pc = "sleeping"
  /\ LET next == AttemptOf(p) + 1
         last == calls.frame[Activation(p)].lastError
     IN  IF LoopContinues(next)
           THEN calls' = [calls EXCEPT !.ctl[p].pc = "fetching",
                                       !.frame[Activation(p)].attempt = next]
           ELSE calls' = [calls EXCEPT !.ctl[p].pc = "thrown",
                                       !.ctl[p].error =
                                          IF last # NullError THEN last
                                          ELSE MaxRetriesError,
                                       !.frame[Activation(p)].attempt = next]
  /\ UNCHANGED << pipelineVars, saveVars, tc, http, fn >>

PairNext ==
  \/ \E p \in Callers : CallStarts(p)
  \/ \E p \in Callers : AttemptSettles(p)
  \/ \E p \in Callers : CallWakes(p)

PairSpec == PairInit /\ [][PairNext]_vars

PairTypeOK ==
  \A p \in Callers :
    calls.ctl[p].pc \in {"idle", "fetching", "sleeping", "returned", "thrown"}

\* ------------------------------------------------------------------------
\* The path of one payload and of one error text through the functions of
\* the pipeline: fileToBase64, toInlineDataParts, the scan of the response,
\* Buffer.from in the save step; the messages of the errors thrown by
\* callGeminiGenerate.  A message is the sequence of the pieces of its
\* template literal followed by the characters of the interpolated text.
\* ------------------------------------------------------------------------
MaxBytes == 3

ByteValues == {0, 77, 255}

\* contents of the file that readFile returns
FileContents == SeqsUpTo(ByteValues, MaxBytes)

\* statuses for which fetchResponse.ok is false
FailureStatuses == { st \in Statuses : ~ResponseOk(st) }

LOG_TEXT_LIMIT == 500

\* lengths of the text that fetchResponse.text() returns
BodyLengths == {0, 1, LOG_TEXT_LIMIT, LOG_TEXT_LIMIT + 1}

ErrorBody(n) == [i \in 1..n |-> "x"]

\* s.substring(from, to)
substring(s, from, to) ==
  SubSeq(s, from + 1, IF to < Len(s) THEN to ELSE Len(s))

\* `Gemini API error ${fetchResponse.status}: ${errorText}`
ApiErrorMessage(status, errorText) ==
  << "Gemini API error ", ToString(status), ": " >> \o errorText

\* `Request timed out after ${REQUEST_TIMEOUT / 1000} seconds`
TimeoutMessage ==
  << "Request timed out after ", ToString(REQUEST_TIMEOUT \div 1000), " seconds" >>

InputErrorMessage == << "InlineImageInput requires either dataBase64 or path" >>

NoImageMessage == << "No image data returned by Gemini API" >>

\* { inline_data: { mime_type: mime, data: dataBase64 } }
InlineData(mime, dataBase64) ==
  [inline_data |-> [mime_type |-> mime, data |-> dataBase64]]

\* a response whose first candidate returns the data of the request part
EchoOf(part) ==
  [candidates |->
     Some(<< Candidate(<< ImagePart(Some(part.inline_data.data),
                                    Some(part.inline_data.mime_type)) >>) >>)]

FnStart(bytes, status, errorText) ==
  [pc |-> "start", bytes |-> bytes, status |-> status, errorText |-> errorText,
   dataBase64 |-> None, part |-> None, response |-> None, images |-> <<>>,
   buffer |-> None, logged |-> None, message |-> <<>>]

FunctionsInit ==
  /\ PipelineAtRest
  /\ SaveAtRest
  /\ tc = Unused
  /\ http = Unused
  /\ calls = Unused
  /\ \E bytes \in FileContents, status \in FailureStatuses, n \in BodyLengths :
       fn = FnStart(bytes, status, ErrorBody(n))

\* fileToBase64: buf.toString('base64')
EncodesFile ==
  /\ fn.pc = "start"
  /\ fn' = [fn EXCEPT !.dataBase64 = Some(Base64Encode(fn.bytes)),
                      !.pc = "encoded"]
  /\ UNCHANGED << pipelineVars, saveVars, tc, http, calls >>

\* toInlineDataParts: the missing-data test, then parts.push
BuildsPart ==
  /\ fn.pc = "encoded"
  /\ IF MissingData(fn.dataBase64)
       THEN fn' = [fn EXCEPT !.message = InputErrorMessage, !.pc = "failed"]
       ELSE fn' = [fn EXCEPT !.part = Some(InlineData("image/png", fn.dataBase64[1])),
                             !.pc = "requested"]
  /\ UNCHANGED << pipelineVars, saveVars, tc, http, calls >>

\* the provider answers with the data it was sent
ProviderEchoes ==
  /\ fn.pc = "requested"
  /\ fn' = [fn EXCEPT !.response = Some(EchoOf(fn.part[1])), !.pc = "responded"]
  /\ UNCHANGED << pipelineVars, saveVars, tc, http, calls >>

\* callGeminiGenerate: the scan of the first candidate's parts
ScansResponse ==
  /\ fn.pc = "responded"
  /\ LET images == ExtractImages(FirstParts(fn.response[1]))
     IN  IF images = <<>>
           THEN fn' = [fn EXCEPT !.message = NoImageMessage, !.pc = "failed"]
           ELSE fn' = [fn EXCEPT !.images = images, !.pc = "extracted"]
  /\ UNCHANGED << pipelineVars, saveVars, tc, http, calls >>

\* maybeSaveImage: Buffer.from(base64, 'base64') on the first image
DecodesImage ==
  /\ fn.pc = "extracted"
  /\ fn' = [fn EXCEPT !.buffer = Some(Base64Decode(fn.images[1].imageBase64)),
                      !.pc = "saved"]
  /\ UNCHANGED << pipelineVars, saveVars, tc, http, calls >>

\* callGeminiGenerate: a response that is not ok; the text is logged and
\* the error is built
ApiFails ==
  /\ fn.pc = "start"
  /\ fn' = [fn EXCEPT !.logged = Some(substring(fn.errorText, 0, LOG_TEXT_LIMIT)),
                      !.message = ApiErrorMessage(fn.status, fn.errorText),
                      !.pc = "apiError"]
  /\ UNCHANGED << pipelineVars, saveVars, tc, http, calls >>

\* callGeminiGenerate: the catch block meets the AbortError
TimesOut ==
  /\ fn.pc = "start"
  /\ fn' = [fn EXCEPT !.message = TimeoutMessage, !.pc = "timedOut"]
  /\ UNCHANGED << pipelineVars, saveVars, tc, http, calls >>

FunctionsNext ==
  \/ EncodesFile
  \/ BuildsPart
  \/ ProviderEchoes
  \/ ScansResponse
  \/ DecodesImage
  \/ ApiFails
  \/ TimesOut

FunctionsSpec == FunctionsInit /\ [][FunctionsNext]_vars

FunctionsTypeOK ==
  /\ fn.pc \in {"start", "encoded", "requested", "responded", "extracted",
                "saved", "failed", "apiError", "timedOut"}
  /\ fn.bytes \in FileContents
  /\ fn.status \in FailureStatuses
  /\ Len(fn.errorText) \in BodyLengths

\* ------------------------------------------------------------------------
\* Vocabulary of the properties
\* ------------------------------------------------------------------------
LastOutcome == outcomes[Len(outcomes)]

\* the provider answered with a complete response of status 429 or 5xx
RetryableStatus(o) ==
  o.kind = "status" /\ (o.status = 429 \/ o.status \in 500..599)

\* the provider answered with a complete response of another error status
NonRetryableStatus(o) ==
  /\ o.kind = "status"
  /\ o.status \notin 200..299
  /\ o.status # 429
  /\ o.status \notin 500..599

\* the inline images of the first candidate, stated on the response shape
InlineImagesOf(json) ==
  IF json.candidates = None \/ Len(json.candidates[1]) = 0 THEN <<>>
  ELSE LET c == json.candidates[1][1]
           ps == IF c.content = None \/ c.content[1].parts = None
                   THEN <<>> ELSE c.content[1].parts[1]
           img == SelectSeq(ps, LAMBDA q : q.inlineData # None
                                           /\ q.inlineData[1].data # None
                                           /\ Len(q.inlineData[1].data[1]) > 0)
       IN  [i \in 1..Len(img) |->
              [imageBase64 |-> img[i].inlineData[1].data[1],
               mimeType |-> IF img[i].inlineData[1].mimeType = None
                              THEN "image/png"
                              ELSE img[i].inlineData[1].mimeType[1]]]

SuccessWithImages(o) ==
  /\ o.kind = "status"
  /\ o.status \in 200..299
  /\ o.json # None
  /\ Len(InlineImagesOf(o.json[1])) >= 1

SuccessWithoutImages(o) ==
  /\ o.kind = "status"
  /\ o.status \in 200..299
  /\ o.json # None
  /\ Len(InlineImagesOf(o.json[1])) = 0

AllWhitespace(s) == \A i \in 1..Len(s) : s[i] \in Whitespace

\* the credential is absent, empty or whitespace-only
CredentialAbsent == envKey = None \/ AllWhitespace(envKey[1])

\* the input yields neither encoded bytes nor file bytes
Unresolvable(input) ==
  /\ input.dataBase64 = None \/ Len(input.dataBase64[1]) = 0
  /\ \/ input.path = None
     \/ input.path[1] = ""
     \/ input.path[1] \notin DOMAIN files
     \/ Len(files[input.path[1]]) = 0

CarriesBytes(input) == input.dataBase64 # None /\ Len(input.dataBase64[1]) > 0

\* ------------------------------------------------------------------------
\* Properties
\* ------------------------------------------------------------------------

\* C1: a response with an error status that is neither 429 nor 5xx, on any
\* attempt n in 0..3, ends the call with a failure and no further attempt is
\* issued.
C1_NonRetryableStatusEndsCall ==
  \A i \in 1..Len(outcomes) :
    NonRetryableStatus(outcomes[i]) =>
      /\ i = Len(outcomes)
      /\ pc = "thrown"
      /\ Len(netLog) = outcomes[i].attempt + 1

\* C2: a success response whose first candidate has no inline image ends the
\* call on that same attempt: no backoff delay and no further attempt follow.
C2_ZeroImagesEndsCall ==
  \A i \in 1..Len(outcomes) :
    SuccessWithoutImages(outcomes[i]) =>
      /\ i = Len(outcomes)
      /\ pc = "thrown"
      /\ delay = 0
      /\ Len(netLog) = outcomes[i].attempt + 1

C4_AttemptsBounded ==
  /\ Len(netLog) <= 4
  /\ \A i \in 1..Len(netLog) : netLog[i].attempt = i - 1

C4_Witness ==
  /\ Len(netLog) = 4
  /\ pc \in {"returned", "thrown"}

\* C5: k consecutive retryable failures (k in 0..3) leave the call running,
\* and when a success response with at least one image follows, the call
\* returns exactly the inline images of that response, whatever k is.
C5_RetryTransparent ==
  \A k \in 0..3 :
    (/\ Len(outcomes) >= k
     /\ \A i \in 1..k : RetryableStatus(outcomes[i]))
    => /\ (k >= 1 /\ Len(outcomes) = k) => (pc # "thrown" /\ result = <<>>)
       /\ (Len(outcomes) = k + 1 /\ SuccessWithImages(outcomes[k + 1]))
            => /\ pc = "returned"
               /\ error = NullError
               /\ result = InlineImagesOf(outcomes[k + 1].json[1])

C5_Witness ==
  /\ Len(outcomes) = 4
  /\ \A i \in 1..3 : RetryableStatus(outcomes[i])
  /\ SuccessWithImages(outcomes[4])
  /\ pc = "returned"
  /\ Len(result) = 2

\* C6: a retryable status on attempt n < MAX_RETRIES is followed by attempt
\* n+1 and by nothing else; when every attempt gets a retryable status,
\* exactly 4 attempts are made and the call fails with the error of the last
\* response (its status code and body).
C6_RetryableEscalates ==
  /\ \A i \in 1..Len(outcomes) :
       (RetryableStatus(outcomes[i]) /\ outcomes[i].attempt < MAX_RETRIES) =>
         LET n == outcomes[i].attempt
         IN  /\ i < Len(outcomes) => outcomes[i + 1].attempt = n + 1
             /\ Len(netLog) > n + 1 => netLog[n + 2].attempt = n + 1
             /\ i = Len(outcomes) =>
                  /\ pc \in {"sleeping", "loop", "fetching", "readingJson", "readingText"}
                  /\ error = NullError
                  /\ pc = "sleeping" => (attempt = n /\ delay >= BASE_DELAY)
                  /\ pc # "sleeping" => attempt = n + 1
  /\ (\A i \in 1..Len(outcomes) : RetryableStatus(outcomes[i])) =>
       /\ Len(outcomes) <= 4
       /\ Len(outcomes) = 4 =>
            /\ pc = "thrown"
            /\ Len(netLog) = 4
            /\ error.message = "Gemini API error"
            /\ error.status = outcomes[4].status
            /\ error.body = outcomes[4].text
       /\ Len(outcomes) \in 1..3 => pc # "thrown"

C6_Witness ==
  /\ Len(outcomes) = 4
  /\ \A i \in 1..4 : RetryableStatus(outcomes[i])
  /\ outcomes[3].status # outcomes[4].status
  /\ pc = "thrown"

\* C7: with an absent, empty or whitespace-only credential the call fails with
\* the credential error and no request is sent (and no input file is read).
C7_NoCredentialNoRequest ==
  CredentialAbsent =>
    /\ netLog = <<>>
    /\ readLog = <<>>
    /\ pc \in {"idle", "thrown"}
    /\ pc = "thrown" => error = CredentialError

C7_Witness ==
  /\ envKey # None
  /\ Len(envKey[1]) = 2
  /\ CredentialAbsent
  /\ Len(Inputs) >= 1
  /\ pc = "thrown"

\* C8: if an input resolves to neither encoded bytes nor file bytes the call
\* fails without any network call; every input is resolved before attempt 0
\* starts, and an input failure is never retried.
C8_InputFailureBeforeNetwork ==
  /\ (\E i \in 1..Len(Inputs) : Unresolvable(Inputs[i])) =>
       /\ netLog = <<>>
       /\ outcomes = <<>>
       /\ pc \in {"idle", "resolving", "thrown"}
  /\ netLog # <<>> => Len(imageParts) = Len(Inputs)
  /\ (pc = "thrown" /\ (error = InputError \/ error.message = "ENOENT")) =>
       /\ netLog = <<>>
       /\ attempt = 0
       /\ delay = 0

C8_Witness ==
  /\ pc = "thrown"
  /\ error = InputError
  /\ ~CredentialAbsent
  /\ Len(imageParts) = 1
  /\ Len(Inputs) = 2

\* C9: the parts list of every request is the text prompt followed by one
\* inline-data part per input image, in input order, each tagged with the
\* input's MIME type (image/png when it has none); every attempt sends the
\* same list.
C9_PartsOrder ==
  \A n \in 1..Len(netLog) :
    LET parts == netLog[n].body.contents[1].parts
    IN  /\ Len(parts) = 1 + Len(Inputs)
        /\ parts[1] = [text |-> request.prompt]
        /\ \A i \in 1..Len(Inputs) :
             /\ parts[i + 1].inline_data.mime_type =
                  (IF Inputs[i].mimeType = None THEN "image/png"
                                                ELSE Inputs[i].mimeType[1])
             /\ parts[i + 1].inline_data.data =
                  (IF CarriesBytes(Inputs[i])
                     THEN Inputs[i].dataBase64[1]
                     ELSE Base64Encode(files[Inputs[i].path[1]]))
        /\ netLog[n].body = netLog[1].body

C9_Witness ==
  /\ Len(netLog) >= 2
  /\ Len(Inputs) = 2
  /\ Inputs[1].mimeType = None
  /\ Inputs[2].mimeType # None
  /\ Inputs[1].path # Inputs[2].path

\* C10: an input that carries encoded bytes is used as given and its path is
\* never read; a path is read, and its bytes base64-encoded, exactly for the
\* inputs without encoded bytes.
C10_EncodedBytesPrecedence ==
  /\ \A e \in 1..Len(readLog) :
       LET input == Inputs[readLog[e].input]
       IN  /\ ~CarriesBytes(input)
           /\ input.path = Some(readLog[e].path)
  /\ \A i \in 1..Len(imageParts) :
       IF CarriesBytes(Inputs[i])
         THEN imageParts[i].inline_data.data = Inputs[i].dataBase64[1]
         ELSE /\ \E e \in 1..Len(readLog) : readLog[e].input = i
              /\ imageParts[i].inline_data.data =
                   Base64Encode(files[Inputs[i].path[1]])

C10_Witness ==
  /\ Len(imageParts) = 2
  /\ CarriesBytes(Inputs[1])
  /\ Inputs[1].path = Some("b.jpg")
  /\ Inputs[2] = [dataBase64 |-> None, path |-> Some("a.png"), mimeType |-> None]
  /\ readLog = << [input |-> 2, path |-> "a.png"] >>
  /\ imageParts[2].inline_data.data = <<34, 21, 1, 14>>
  /\ pc = "returned"

\* C11: on a success response the returned list is exactly the sequence, in
\* order, of the parts of the first candidate that carry inline image data,
\* each with its MIME type or image/png; text parts and later candidates
\* contribute nothing.
C11_DecodedFirstCandidate ==
  pc = "returned" =>
    /\ LastOutcome.kind = "status"
    /\ LastOutcome.status \in 200..299
    /\ result = InlineImagesOf(LastOutcome.json[1])
    /\ Len(result) >= 1

C11_Witness ==
  /\ pc = "returned"
  /\ Len(LastOutcome.json[1].candidates[1]) = 2
  /\ result = << [imageBase64 |-> <<9, 10, Pad, Pad>>, mimeType |-> "image/png"],
                 [imageBase64 |-> <<11, 12, 13, Pad>>, mimeType |-> "image/webp"] >>

\* ------------------------------------------------------------------------
\* Vocabulary of the save step
\* ------------------------------------------------------------------------
\* the operations of one kind in a call's file-system trace
OpsOf(p, op) == { e \in 1..Len(sv[p].fsOps) : sv[p].fsOps[e].op = op }

\* the call reached the handler's choice of the save path
PastPipeline(p) ==
  \/ sv[p].pc \in {"mkdir", "access", "write", "done"}
  \/ sv[p].pc = "failed" /\ sv[p].err \notin PipelineErrors

\* C12: with no saveToFilePath and auto-save disabled the save returns
\* nothing and performs no file-system operation; a supplied path is the
\* target used; a default path is generated only when none is supplied and
\* auto-save is enabled.
C12_SavePathChoice ==
  \A p \in Savers :
    /\ (~Truthy(sv[p].hint) /\ ~autoSave) =>
         /\ sv[p].fsOps = <<>>
         /\ sv[p].savedPath = None
         /\ sv[p].targetPath = None
         /\ sv[p].pc \notin {"mkdir", "access", "write"}
    /\ (Truthy(sv[p].hint) /\ PastPipeline(p)) =>
         /\ sv[p].targetPath = sv[p].hint
         /\ sv[p].now = <<>>
    /\ (~Truthy(sv[p].hint) /\ autoSave /\ PastPipeline(p)) =>
         sv[p].targetPath =
           Some(generateDefaultFileName(sv[p].tool, sv[p].first.mimeType, sv[p].now))

C12_Witness ==
  /\ ~autoSave
  /\ sv[1].pc = "done"
  /\ sv[1].hint = None
  /\ sv[1].first # NoImage
  /\ sv[1].fsOps = <<>>
  /\ quota[1] = 0
  /\ sv[2].pc = "done"
  /\ sv[2].hint = Some(<< ".", "/", "o" >>)
  /\ sv[2].savedPath = Some(<< "/", "w", "/", "o", ".", "jpg" >>)

\* the extension the MIME table gives, unmapped types falling back to .png
MimeExtension(mimeType) ==
  IF mimeType \in {"image/jpeg", "IMAGE/JPEG", "image/jpg"} THEN << ".", "jpg" >>
  ELSE IF mimeType = "image/webp" THEN << ".", "webp" >>
  ELSE IF mimeType = "image/gif" THEN << ".", "gif" >>
  ELSE << ".", "png" >>

\* C13: a target path that has an extension is resolved as it is, whatever
\* the MIME type; a target without one gets the MIME-derived extension
\* appended (.png for an unmapped type).
C13_ExtensionChoice ==
  \A p \in Savers :
    (PastPipeline(p) /\ Truthy(sv[p].targetPath)) =>
      LET target == sv[p].targetPath[1]
          provided == extname(target)
          derived == MimeExtension(sv[p].first.mimeType)
      IN  /\ provided # <<>> =>
                /\ sv[p].resolved = resolve(target)
                /\ sv[p].extension = provided
                /\ EndsWith(sv[p].resolved, provided)
          /\ provided = <<>> =>
                /\ sv[p].resolved = resolve(target \o derived)
                /\ sv[p].extension = derived

C13_Witness ==
  /\ sv[1].hint = Some(<< "o", ".", "png" >>)
  /\ sv[1].first.mimeType = "image/jpeg"
  /\ sv[1].resolved = << "/", "w", "/", "o", ".", "png" >>
  /\ sv[1].savedPath = Some(<< "/", "w", "/", "o", "_", "1", ".", "png" >>)
  /\ sv[2].hint = Some(<< ".", "/", "o" >>)
  /\ sv[2].first.mimeType = "image/jpeg"
  /\ sv[2].savedPath = Some(<< "/", "w", "/", "o", ".", "jpg" >>)

\* C14: a save that no other save overlaps writes only to a path at which no
\* file existed when it started; its successful write adds exactly one file
\* and leaves every file that was there unchanged.
C14_NoOverwrite ==
  [][\A p \in Savers :
       (sv[p].pc = "write" /\ sv'[p].pc = "done" /\ ~sv[p].overlapped) =>
         LET before == sv[p].startDisk
             path == sv[p].finalPath
         IN  /\ disk = before
             /\ path \notin DOMAIN before
             /\ path \notin sv[p].startDirs
             /\ DOMAIN disk' = DOMAIN before \cup {path}
             /\ \A f \in DOMAIN before : disk'[f] = before[f]
             /\ disk'[path] = Base64Decode(sv[p].first.imageBase64)
             /\ sv'[p].savedPath = Some(path)]_vars

\* two saves in succession under the same generated name
C14_Witness ==
  /\ Len(writeLog) = 2
  /\ \A e \in 1..2 : writeLog[e].caller = 1 /\ ~writeLog[e].overlapped
  /\ sv[1].pc = "done"
  /\ sv[1].hint = None
  /\ sv[1].counter = 1
  /\ writeLog[1].path = sv[1].resolved
  /\ writeLog[2].path = sv[1].finalPath
  /\ writeLog[1].bytes # writeLog[2].bytes
  /\ disk[writeLog[1].path] = writeLog[1].bytes
  /\ disk[writeLog[2].path] = writeLog[2].bytes

\* the file name of the candidate path without the extension in use
CandidateName(p) ==
  LET base == LastSegment(sv[p].resolved)
  IN  SubSeq(base, 1, Len(base) - Len(sv[p].extension))

\* <dir>/<name>_k<ext> for the candidate <dir>/<name><ext> of a call
NumberedPath(p, k) ==
  join(sv[p].dir,
       CandidateName(p) \o << "_", ToString(k) >> \o sv[p].extension)

\* existed when the save of p started
ExistedAtStart(p, path) ==
  path \in DOMAIN sv[p].startDisk \/ path \in sv[p].startDirs

\* C15: when the candidate <dir>/<name><ext> is taken, the final path is
\* <dir>/<name>_k<ext> for the smallest k >= 1 at which nothing exists, the
\* suffix standing before the extension; an unused candidate is itself the
\* final path.
C15_SmallestSuffix ==
  \A p \in Savers :
    (sv[p].pc \in {"write", "done"} /\ Truthy(sv[p].targetPath) /\ ~sv[p].overlapped) =>
      LET k == sv[p].counter
      IN  /\ sv[p].resolved = join(sv[p].dir, CandidateName(p) \o sv[p].extension)
          /\ ~ExistedAtStart(p, sv[p].finalPath)
          /\ k = 0 => sv[p].finalPath = sv[p].resolved
          /\ k >= 1 =>
               /\ sv[p].finalPath = NumberedPath(p, k)
               /\ ExistedAtStart(p, sv[p].resolved)
               /\ \A j \in 1..(k - 1) : ExistedAtStart(p, NumberedPath(p, j))

\* C16: the existence check and the write are separate steps, so two
\* overlapping saves with the same candidate can both find it unused and
\* both write the same final path, the later write replacing the earlier
\* image; two writes meet on one path only in that way.
C16_RaceOverwrites ==
  /\ \A e1, e2 \in 1..Len(writeLog) :
       (e1 < e2 /\ writeLog[e1].path = writeLog[e2].path) =>
         /\ writeLog[e1].overlapped /\ writeLog[e2].overlapped
         /\ writeLog[e1].caller # writeLog[e2].caller
         /\ disk[writeLog[e2].path] = writeLog[e2].bytes
  /\ \A p, q \in Savers :
       (p # q /\ sv[p].pc = "write" /\ sv[q].pc = "write"
          /\ sv[p].finalPath = sv[q].finalPath) =>
         /\ sv[p].overlapped /\ sv[q].overlapped
         /\ ~Exists(sv[p].finalPath)

C16_Witness ==
  /\ Len(writeLog) = 2
  /\ writeLog[1].path = writeLog[2].path
  /\ writeLog[1].caller # writeLog[2].caller
  /\ writeLog[1].bytes # writeLog[2].bytes
  /\ sv[1].resolved = sv[2].resolved
  /\ sv[1].pc = "done" /\ sv[2].pc = "done"
  /\ sv[1].savedPath = Some(writeLog[1].path)
  /\ sv[2].savedPath = Some(writeLog[1].path)
  /\ disk[writeLog[1].path] = writeLog[2].bytes

\* the save of p ended in the error of a failed mkdir
MkdirFailed(p) ==
  /\ sv[p].pc = "failed"
  /\ sv[p].err = SaveError("Failed to create directory")

\* C17: when mkdir fails the save fails, with no existence check and no
\* write after it; mkdir is called once.
C17_MkdirFailureIsFatal ==
  \A p \in Savers :
    /\ MkdirFailed(p) =>
         /\ sv[p].fsOps = << FsOp("mkdir", sv[p].dir) >>
         /\ sv[p].savedPath = None
    /\ Cardinality(OpsOf(p, "mkdir")) <= 1
    /\ (OpsOf(p, "access") # {} \/ OpsOf(p, "writeFile") # {}) =>
         /\ ~MkdirFailed(p)
         /\ sv[p].fsOps[1] = FsOp("mkdir", sv[p].dir)
         /\ sv[p].dir \in dirs

C17_Witness ==
  /\ MkdirFailed(1)
  /\ sv[1].hint = Some(<< "d", "/", "o", ".", "png" >>)
  /\ sv[1].dir = << "/", "w", "/", "d" >>
  /\ sv[1].dir \notin dirs
  /\ sv[1].fsOps = << FsOp("mkdir", << "/", "w", "/", "d" >>) >>

\* the save of p ended in the error of a failed writeFile
WriteFailed(p) ==
  /\ sv[p].pc = "failed"
  /\ sv[p].err = SaveError("ENOSPC")

\* C18: when mkdir succeeds and writeFile fails the save fails and does
\* nothing more: the directory stays, and writeFile is called once.
C18_WriteFailureLeavesDirectory ==
  \A p \in Savers :
    /\ WriteFailed(p) =>
         LET n == Len(sv[p].fsOps)
         IN  /\ n >= 3
             /\ sv[p].fsOps[1] = FsOp("mkdir", sv[p].dir)
             /\ sv[p].fsOps[n] = FsOp("writeFile", sv[p].finalPath)
             /\ \A e \in 2..(n - 1) : sv[p].fsOps[e].op = "access"
             /\ AncestorsOf(sv[p].dir) \subseteq dirs
             /\ sv[p].savedPath = None
    /\ Cardinality(OpsOf(p, "writeFile")) <= 1
    /\ OpsOf(p, "writeFile") # {} => sv[p].pc \in {"done", "failed"}

C18_Witness ==
  /\ WriteFailed(1)
  /\ sv[1].hint = Some(<< "d", "/", "o", ".", "png" >>)
  /\ sv[1].dir \in dirs
  /\ sv[1].dir \notin sv[1].startDirs
  /\ sv[1].finalPath \notin DOMAIN disk
  /\ Len(sv[1].fsOps) = 3

\* {defaultDir}/{tool}-{YYYY-MM-DD}-{HH-MM-SS}.{ext} for the clock reading
\* iso = date T hours : minutes : seconds . milliseconds Z
SecondGranularityName(tool, mimeType, iso) ==
  ExpandTilde(DEFAULT_SAVE_DIR, Home)
    \o << "/" >> \o tool
    \o << "-", iso[1], "-", iso[3], "-", iso[5], "-", iso[7], "." >>
    \o (IF mimeType = "image/jpeg" THEN << "jpg" >> ELSE << "png" >>)

\* C19: with no saveToFilePath and auto-save enabled the generated target is
\* {defaultDir}/{tool}-{date}-{HH-MM-SS}.{ext}, the time having hours,
\* minutes and seconds only, ext being jpg for image/jpeg and png otherwise.
C19_DefaultFileName ==
  \A p \in Savers :
    (~Truthy(sv[p].hint) /\ autoSave /\ PastPipeline(p)) =>
      sv[p].targetPath =
        Some(SecondGranularityName(sv[p].tool, sv[p].first.mimeType, sv[p].now))

\* the absolute path lies in the working directory
InsideCwd(path) == path = Cwd \/ StartsWith(path, Cwd \o << "/" >>)

\* C20: a saveToFilePath that validateFilePath accepts resolves inside the
\* working directory and holds neither '..' nor a leading '~'; one that
\* resolves outside is rejected before the pipeline is entered.
C20_AcceptedPathsStayInside ==
  \A p \in Savers :
    Truthy(sv[p].hint) =>
      LET path == sv[p].hint[1]
      IN  /\ sv[p].pc \notin {"idle", "rejected"} =>
               /\ InsideCwd(resolve(path))
               /\ ~Includes(path, << ".", "." >>)
               /\ path[1] # "~"
          /\ ~InsideCwd(resolve(path)) => sv[p].pc = "rejected"

\* ------------------------------------------------------------------------
\* Vocabulary of the tool schemas
\* ------------------------------------------------------------------------
\* the inline image parts of the provider request
SentImageParts == SubSeq(tc.parts, 2, Len(tc.parts))

\* C21: every inline image part of a provider request has base64 data of at
\* most MAX_BASE64_SIZE characters, whether it came as dataBase64 or was
\* read from a path.
C21_PartsWithinSizeLimit ==
  tc.pc = "sent" =>
    \A i \in 1..Len(SentImageParts) :
      SentImageParts[i].data.length <= MAX_BASE64_SIZE

\* C22: the request that enters the pipeline carries a prompt of 1 to 2000
\* characters; style_transfer uses its default prompt whenever the caller
\* gives no usable prompt, so the prompt sent is never empty.
C22_PromptWithinLimits ==
  tc.pc \in {"pipeline", "sent"} =>
    /\ Len(tc.request.prompt) >= 1
    /\ Len(tc.request.prompt) <= 2000
    /\ (tc.call.tool = "style_transfer" /\ ~Truthy(tc.call.prompt)) =>
         tc.request.prompt = DEFAULT_STYLE_PROMPT
    /\ tc.pc = "sent" => tc.parts[1].text # <<>>

C24_BodyLimit ==
  LET limit == 10 * 1024 * 1024
  IN  /\ http.totalSize = SumOf(http.received)
      /\ http.totalSize > limit =>
           /\ http.pc = "responded"
           /\ http.statusCode = 413
           /\ ~http.parsed
           /\ ~http.forwarded
           /\ SumOf(SubSeq(http.received, 1, Len(http.received) - 1)) <= limit
           /\ http.chunks = SubSeq(http.received, 1, Len(http.received) - 1)
      /\ (http.parsed \/ http.forwarded \/ http.pc = "transport") =>
           /\ SumOf(http.chunks) <= limit
           /\ http.chunks = http.received
      /\ http.statusCode = 413 => http.totalSize > limit

C24_Witness ==
  /\ http.method = "POST"
  /\ http.received = << 5 * 1024 * 1024, 5 * 1024 * 1024, 1 >>
  /\ http.statusCode = 413
  /\ ~http.forwarded

\* ------------------------------------------------------------------------
\* Vocabulary of the concurrent calls
\* ------------------------------------------------------------------------
LastErrorOf(p) == calls.frame[Activation(p)].lastError

\* the outcome is a failure that the loop retries when attempts remain
RetriedOutcome(outcome) == outcome \in {"unavailable", "badRequest"}

\* C25: under every interleaving of two calls the attempt counter, the last
\* error and the result of a call are determined by the provider outcomes
\* of its own attempts, and each call makes at most 4 attempts.
C25_CallsIndependent ==
  \A p \in Callers :
    LET c == calls.ctl[p]
        log == c.outcomes
        n == Len(log)
        inFlight == c.pc = "fetching"
        made == IF inFlight THEN n + 1 ELSE n
    IN  /\ made <= 4
        /\ AttemptOf(p) = (IF c.pc = "idle" THEN 0 ELSE made - 1)
        /\ \A e \in 1..(n - 1) : RetriedOutcome(log[e])
        /\ LastErrorOf(p) =
             (IF c.pc \in {"fetching", "sleeping"} /\ n >= 1 THEN OutcomeError(log[n])
              ELSE IF n >= 2 THEN OutcomeError(log[n - 1])
              ELSE NullError)
        /\ c.pc = "sleeping" => RetriedOutcome(log[n]) /\ n <= 3
        /\ c.pc = "returned" <=> (n >= 1 /\ log[n] = "images")
        /\ c.pc = "thrown" <=>
             (n >= 1 /\ (log[n] = "timeout" \/ (n = 4 /\ RetriedOutcome(log[n]))))
        /\ c.pc = "thrown" =>
             c.error = (IF log[n] = "timeout" THEN TimeoutError ELSE OutcomeError(log[n]))

C25_Witness ==
  /\ calls.ctl[1].pc = "sleeping"
  /\ calls.ctl[1].outcomes = << "unavailable", "badRequest", "unavailable" >>
  /\ AttemptOf(1) = 2
  /\ calls.ctl[2].pc = "fetching"
  /\ calls.ctl[2].outcomes = << "badRequest" >>
  /\ AttemptOf(2) = 1
  /\ LastErrorOf(1) # LastErrorOf(2)

\* C26: after a failure of the pipeline (credential check, input resolution,
\* provider call), of mkdir or of writeFile the tool call ends in an error
\* and never in a success response; a save failure is surfaced although an
\* image was generated.
C26_FailuresSurface ==
  \A p \in Savers :
    LET c == sv[p]
        n == Len(c.fsOps)
    IN  /\ c.err # NullError => c.pc = "failed"
        /\ c.pc = "failed" => c.err # NullError /\ c.savedPath = None
        /\ c.pc = "done" =>
             /\ c.first # NoImage
             /\ \/ n = 0 /\ c.savedPath = None /\ c.targetPath = None
                \/ /\ n >= 3
                   /\ c.fsOps[n] = FsOp("writeFile", c.finalPath)
                   /\ c.savedPath = Some(c.finalPath)
                   /\ c.finalPath \in DOMAIN disk
                   /\ c.dir \in dirs
        /\ (c.pc = "failed" /\ c.first = NoImage) => c.err \in PipelineErrors
        /\ (c.pc = "failed" /\ c.first # NoImage) =>
             c.err \in { SaveError("Failed to create directory"), SaveError("ENOSPC") }

C26_Witness ==
  /\ sv[1].pc = "failed"
  /\ sv[1].err = CredentialError
  /\ sv[2].pc = "failed"
  /\ sv[2].first # NoImage
  /\ sv[2].err = SaveError("ENOSPC")
  /\ sv[2].savedPath = None

\* C27: when a call fails on a non-success HTTP status, the error given to
\* the caller names the upstream status code and carries the response body
\* cut to a bounded length (500 characters, the bound the program applies
\* to the text of a response); when it fails on a timeout, the message
\* carries the configured timeout, 60 seconds.
C27_ErrorMessageBounded ==
  /\ fn.pc = "apiError" =>
       LET body == SubSeq(fn.message, 4, Len(fn.message))
       IN  /\ Len(fn.message) >= 3
           /\ fn.message[2] = ToString(fn.status)
           /\ Len(body) <= 500
           /\ body = SubSeq(fn.errorText, 1, Len(body))
  /\ fn.pc = "timedOut" =>
       \E i \in 1..Len(fn.message) : fn.message[i] = "60"

C29_AttemptUnderTimer ==
  pc \in {"fetching", "readingJson", "readingText"} => timerArmed

\* the interval of the delay that follows attempt n (counted from 0)
DelayInterval(n) ==
  CASE n = 0 -> 1000 .. 1999
    [] n = 1 -> 2000 .. 2999
    [] n = 2 -> 4000 .. 4999
    [] OTHER -> {}

\* C30: after attempt n (n in 0..2) that is to be retried the pipeline waits
\* 1000 * 2^n + j ms, 0 <= j < 1000, that is a delay in [1000,2000),
\* [2000,3000), [4000,5000); the next attempt starts only by the end of that
\* wait, one wait lies between two consecutive attempts, and no wait
\* follows the fourth attempt.
C30_BackoffDelays ==
  [][ /\ (pc' = "sleeping" /\ pc # "sleeping") =>
           /\ attempt' = attempt
           /\ attempt \in 0 .. 2
           /\ delay' \in DelayInterval(attempt)
      /\ pc = "sleeping" =>
           /\ pc' = "loop"
           /\ attempt' = attempt + 1
           /\ delay \in DelayInterval(attempt)
      /\ (attempt' # attempt /\ attempt' \in 1 .. 3) =>
           /\ pc = "sleeping"
           /\ attempt' = attempt + 1
      /\ attempt = 3 => pc' # "sleeping"
    ]_vars

C30_Witness ==
  /\ pc = "sleeping"
  /\ attempt = 2
  /\ Len(outcomes) = 3
  /\ delay = 4999

\* the attempt ended in an exception that is not the abort of the timer:
\* fetch rejected, or the body of the response could not be read or parsed
ExceptionOutcome(o) == o.kind \in {"network", "body"}

\* the exception raised by such an attempt
ExceptionOf(o) == IF o.kind = "network" THEN NetworkError ELSE BodyError

\* C31: a non-timeout exception raised during attempt n (network failure,
\* unparsable response body) is followed by attempt n+1 after the backoff
\* delay when n < 3; the call fails with that exception only when it is
\* raised on the last attempt (n = 3).
C31_ExceptionRetried ==
  /\ \A i \in 1..Len(outcomes) :
       ExceptionOutcome(outcomes[i]) =>
         LET n == outcomes[i].attempt
         IN  IF n < 3
               THEN /\ i < Len(outcomes) => outcomes[i + 1].attempt = n + 1
                    /\ Len(netLog) > n + 1 => netLog[n + 2].attempt = n + 1
                    /\ i = Len(outcomes) =>
                         /\ pc \in {"sleeping", "loop", "fetching",
                                    "readingJson", "readingText"}
                         /\ error = NullError
                         /\ lastError = ExceptionOf(outcomes[i])
                         /\ pc = "sleeping" => (attempt = n /\ delay >= 1000)
                         /\ pc # "sleeping" => (attempt = n + 1 /\ delay = 0)
               ELSE /\ i = Len(outcomes)
                    /\ pc = "thrown"
                    /\ error = ExceptionOf(outcomes[i])
  /\ (pc = "thrown" /\ error \in {NetworkError, BodyError}) =>
       /\ Len(outcomes) = 4
       /\ LastOutcome.attempt = 3
       /\ ExceptionOutcome(LastOutcome)
       /\ error = ExceptionOf(LastOutcome)

C31_Witness ==
  /\ Len(outcomes) = 4
  /\ outcomes[1].kind = "network"
  /\ outcomes[2].kind = "body"
  /\ outcomes[3].kind = "network"
  /\ outcomes[4].kind = "body"
  /\ pc = "thrown"
  /\ error = BodyError

\* the items of a kind in the response of caller p
ItemsOf(p, kind) ==
  SelectSeq(sv[p].content, LAMBDA item : item.type = kind)

\* the call of p wrote a file: the last step of its save is a writeFile
WroteFile(p) ==
  /\ sv[p].fsOps # <<>>
  /\ sv[p].fsOps[Len(sv[p].fsOps)].op = "writeFile"

C33_SaveOnlyAfterImage ==
  [][ /\ ( \/ disk' # disk
           \/ dirs' # dirs
           \/ \E q \in Savers : sv'[q].fsOps # sv[q].fsOps /\ sv'[q].fsOps # <<>> ) =>
           \E p \in Savers :
             /\ sv[p].first # NoImage
             /\ sv[p].pc \in {"mkdir", "access", "write"}
             /\ Len(sv'[p].fsOps) = Len(sv[p].fsOps) + 1
      /\ \A p \in Savers :
           /\ sv'[p].fsOps # <<>> => sv'[p].first # NoImage
           /\ (sv'[p].pc = "failed" /\ sv'[p].err \in PipelineErrors) =>
                /\ sv'[p].first = NoImage
                /\ sv'[p].fsOps = <<>>
                /\ sv'[p].savedPath = None
                /\ sv[p].pc = "pipeline" => (disk' = disk /\ dirs' = dirs)
    ]_vars

C33_Witness ==
  /\ sv[1].pc = "failed"
  /\ sv[1].err = ApiError(503, "quota exceeded")
  /\ sv[1].hint = Some(<< "d", "/", "o", ".", "png" >>)
  /\ sv[1].fsOps = <<>>
  /\ << "/", "w", "/", "d" >> \notin dirs
  /\ sv[2].pc = "done"
  /\ Len(sv[2].fsOps) >= 3

\* the file-system operations of a kind in the save of caller p
OpsOfKind(p, kind) ==
  SelectSeq(sv[p].fsOps, LAMBDA o : o.op = kind)

\* the writes recorded for caller p
WritesOf(p) ==
  SelectSeq(writeLog, LAMBDA w : w.caller = p)

\* C34: a tool call enters the save step at most once (one mkdir) and
\* writes at most one file; the file holds the first image of the list the
\* pipeline returned, and the response holds no image but that one: the
\* further images of a response with several images are neither saved nor
\* returned.
C34_OnlyFirstImage ==
  \A p \in Savers :
    /\ Len(OpsOfKind(p, "mkdir")) <= 1
    /\ Len(OpsOfKind(p, "writeFile")) <= 1
    /\ sv[p].results # <<>> => sv[p].first = sv[p].results[1]
    /\ (sv[p].pc = "done" /\ WroteFile(p)) =>
         LET w == WritesOf(p)[Len(WritesOf(p))]
         IN  /\ w.path = sv[p].fsOps[Len(sv[p].fsOps)].path
             /\ w.bytes = Base64Decode(sv[p].results[1].imageBase64)
    /\ \A i \in 1..Len(sv[p].content) :
         sv[p].content[i].type = "image" =>
           /\ sv[p].content[i].data = sv[p].results[1].imageBase64
           /\ sv[p].content[i].mimeType = sv[p].results[1].mimeType
    /\ Len(ItemsOf(p, "image")) <= 1

C34_Witness ==
  /\ ~autoSave
  /\ Len(sv[1].results) = 2
  /\ sv[1].results[1] # sv[1].results[2]
  /\ sv[1].pc = "done"
  /\ WroteFile(1)
  /\ disk[sv[1].savedPath[1]] = Base64Decode(sv[1].results[1].imageBase64)
  /\ Len(sv[2].results) = 2
  /\ sv[2].pc = "done"
  /\ Len(sv[2].content) = 2

\* the URL of the request begins with the characters /mcp
UrlOnPath ==
  /\ http.url # None
  /\ Len(http.url[1]) >= 4
  /\ http.url[1][1] = "/" /\ http.url[1][2] = "m"
  /\ http.url[1][3] = "c" /\ http.url[1][4] = "p"

\* C35: a request reaches the MCP transport only if its URL starts with the
\* configured path (/mcp) and, for a POST, its body is empty or valid JSON;
\* a URL outside the path is answered 404, a POST with a non-empty body
\* that does not parse is answered 400, the transport is not invoked in
\* either case, and a request gets at most one response.
C35_TransportGate ==
  /\ Len(http.responses) <= 1
  /\ (http.forwarded \/ http.pc = "transport") =>
       /\ UrlOnPath
       /\ http.method = "POST" => (SumOf(http.chunks) = 0 \/ http.wellFormed)
  /\ (http.pc # "listening" /\ ~UrlOnPath) =>
       /\ http.pc = "responded"
       /\ http.responses = << 404 >>
       /\ ~http.forwarded
  /\ 404 \in { http.responses[i] : i \in 1..Len(http.responses) } => ~UrlOnPath
  /\ ( /\ http.pc = "responded"
       /\ UrlOnPath
       /\ http.method = "POST"
       /\ SumOf(http.chunks) > 0
       /\ ~http.wellFormed
       /\ http.responses \notin { << 413 >>, << 500 >> } ) =>
       /\ http.responses = << 400 >>
       /\ ~http.forwarded
       /\ ~http.parsed
  /\ http.responses = << 400 >> =>
       /\ http.method = "POST"
       /\ SumOf(http.chunks) > 0
       /\ ~http.wellFormed
       /\ ~http.forwarded

C35_Witness ==
  /\ http.method = "POST"
  /\ http.url = Some(<< "/", "m", "c", "p", "/", "x" >>)
  /\ http.received = << 1, 1 >>
  /\ ~http.wellFormed
  /\ http.responses = << 400 >>
  /\ ~http.forwarded

\* C36: a timeout timer is armed only while an attempt awaits its response;
\* a timer is set only when none is armed, so at most one is armed at a
\* time; the timer of an attempt is cleared before the backoff delay, before
\* the next attempt starts and before the call returns or fails.
C36_OneTimerPerAttempt ==
  [][ /\ timerArmed' => pc' = "fetching"
      /\ (timerArmed' /\ ~timerArmed) =>
           /\ pc = "loop"
           /\ pc' = "fetching"
           /\ attempt' = attempt
      /\ (pc' = "fetching" /\ pc # "fetching") => (~timerArmed /\ timerArmed')
      /\ pc' \in {"sleeping", "loop", "returned", "thrown"} => ~timerArmed'
      /\ attempt' # attempt => (~timerArmed /\ ~timerArmed')
    ]_vars

C36_Witness ==
  /\ pc = "fetching"
  /\ timerArmed
  /\ attempt = 3
  /\ outcomes[1].kind = "network"
  /\ outcomes[2].kind = "status"
  /\ outcomes[3].kind = "body"

\* C37: when every request settles and every backoff delay elapses, a call
\* of callGeminiGenerate ends: it returns a list of images or throws an
\* error, never both and never anything after that; the end is reached
\* within at most 4 attempts, and the loop is never left through its
\* condition, so the throw after the loop ('Max retries exceeded') is not
\* reached.
C37_CallTerminates ==
  /\ <>(pc \in {"returned", "thrown"})
  /\ [](pc = "returned" => (result # <<>> /\ error = NullError))
  /\ [](pc = "thrown" => (result = <<>> /\ error # NullError))
  /\ [][pc \notin {"returned", "thrown"}]_vars
  /\ [](Len(netLog) <= 4 /\ attempt <= 3)
  /\ [](error.message # "Max retries exceeded")

C37_Witness ==
  /\ pc = "returned"
  /\ Len(netLog) = 4
  /\ attempt = 3
  /\ outcomes[1].kind = "status"
  /\ outcomes[2].kind = "network"
  /\ outcomes[3].kind = "body"
  /\ result # <<>>

\* the entries of the target directory when the save of p started
EntriesAtStart(p) ==
  { q \in DOMAIN sv[p].startDisk : dirname(q) = sv[p].dir }
    \cup { d \in sv[p].startDirs : d # sv[p].dir /\ dirname(d) = sv[p].dir }

\* C38: a save that no other save overlaps leaves its collision loop after
\* at most (entries of the target directory at its start + 1) existence
\* checks, each of a different path; the loop is followed by exactly one
\* write, and a finished save has made exactly one.
C38_CollisionLoopBounded ==
  \A p \in Savers :
    ~sv[p].overlapped =>
      LET checks == OpsOfKind(p, "access")
          writes == OpsOfKind(p, "writeFile")
          n == Len(sv[p].fsOps)
      IN  /\ Len(checks) <= Cardinality(EntriesAtStart(p)) + 1
          /\ \A i, j \in 1..Len(checks) : checks[i].path = checks[j].path => i = j
          /\ sv[p].pc = "write" =>
               /\ Len(checks) >= 1
               /\ Len(writes) = 0
               /\ sv[p].fsOps[n] = FsOp("access", sv[p].finalPath)
          /\ Len(writes) >= 1 =>
               /\ Len(writes) = 1
               /\ Len(checks) >= 1
               /\ sv[p].fsOps[n] = FsOp("writeFile", checks[Len(checks)].path)
          /\ (sv[p].pc = "done" /\ sv[p].savedPath # None) => Len(writes) = 1

C38_Witness ==
  /\ sv[1].pc = "done"
  /\ ~sv[1].overlapped
  /\ Cardinality(EntriesAtStart(1)) = 2
  /\ Len(OpsOfKind(1, "access")) = 3
  /\ Len(OpsOfKind(1, "writeFile")) = 1
  /\ sv[1].savedPath = Some(<< "/", "w", "/", "o", "_", "2", ".", "png" >>)
====
